---- MODULE Spec2Model ----
(***************************************************************************)
(* The haiku-lang picklers: the simple-expression tokenizer, parser and    *)
(* serializer (haiku/pickle/simple.py) and the canonical-expression        *)
(* serializer and reader (haiku/pickle/canonical.py), as a state machine.  *)
(*                                                                         *)
(* A code point is a one-character string, or "U+XXXX" for a code point    *)
(* that a TLA+ string cannot hold; a text is a sequence of code points.    *)
(* A Value is a record [t |-> variant, v |-> payload].                     *)
(***************************************************************************)
EXTENDS Integers, Sequences, FiniteSets, TLC

\* ------------------------------------------------------------------------
\* Bounds of the model
\* ------------------------------------------------------------------------
MaxLen == 3      \* longest text over TextAlphabet handed to loads
MaxNest == 5     \* longest text over NestAlphabet handed to loads
MaxNumber == 5   \* longest text over NumberAlphabet handed to loads
MaxString == 6   \* longest text over StringAlphabet handed to loads
MaxElems == 2    \* most entries of a container handed to dumps
MaxAtom == 2     \* longest Unicode or Bytes atom handed to dumps
MaxCalls == 2    \* most calls made on a canonical pickler
MaxForm == 5     \* characters between the brackets of a bracketed form
MaxQuote == 4    \* longest text over QuoteAlphabet handed to loads
MaxConstant == 5 \* longest text after the constant indicator handed to loads
MaxComment == 4  \* longest text over CommentAlphabet handed to loads
MaxKey == 4      \* most lexemes in a text of KeyTexts handed to loads
MaxFraming == 3  \* most octets after the `:` of the atom in an input of FramingOctets
MaxConcurrent == 2   \* longest text over ConcurrentAlphabet handed to each of two calls of loads
MaxPrefix == 4   \* longest text over PrefixAlphabet handed to loads
MaxOctets == 5   \* longest octet string handed to the canonical _tokenize

\* ------------------------------------------------------------------------
\* Generic helpers
\* ------------------------------------------------------------------------
None == "None"   \* Python's None (never a code point: code points have length 1)

Last(s) == s[Len(s)]
Front(s) == SubSeq(s, 1, Len(s) - 1)

RECURSIVE Concat(_)
Concat(ss) == IF ss = <<>> THEN <<>> ELSE Head(ss) \o Concat(Tail(ss))

\* sep.join(parts)
RECURSIVE Join(_, _)
Join(sep, parts) ==
  IF parts = <<>> THEN <<>>
  ELSE IF Len(parts) = 1 THEN parts[1]
  ELSE parts[1] \o sep \o Join(sep, Tail(parts))

\* The text of a word, one code point per element.
Chars(w) ==
  CASE w = "nil" -> <<"n","i","l">>
    [] w = "t" -> <<"t">>
    [] w = "f" -> <<"f">>
    [] w = "rational" -> <<"r","a","t","i","o","n","a","l">>
    [] w = "byte-array" -> <<"b","y","t","e","-","a","r","r","a","y">>
    [] w = "set" -> <<"s","e","t">>
    [] w = "quote" -> <<"q","u","o","t","e">>
    [] w = "unquote" -> <<"u","n","q","u","o","t","e">>
    [] w = "unquote-splice" ->
         <<"u","n","q","u","o","t","e","-","s","p","l","i","c","e">>
    [] w = "true" -> <<"t","r","u","e">>
    [] w = "false" -> <<"f","a","l","s","e">>
    [] w = "integer" -> <<"i","n","t","e","g","e","r">>
    [] w = "string" -> <<"s","t","r","i","n","g">>

\* ------------------------------------------------------------------------
\* The Value variants (haiku.types)
\* ------------------------------------------------------------------------
Omega == [t |-> "omega", v |-> 0]
Boolean(b) == [t |-> "bool", v |-> b]
Integer(i) == [t |-> "int", v |-> i]
Fraction(n, d) == [t |-> "frac", v |-> <<n, d>>]
Unicode(s) == [t |-> "unicode", v |-> s]
Bytes(s) == [t |-> "bytes", v |-> s]
Set(S) == [t |-> "set", v |-> S]
Tuple(f) == [t |-> "tuple", v |-> f]
Sequence(s) == [t |-> "seq", v |-> s]
Relation == [t |-> "relation", v |-> 0]
Matrix == [t |-> "matrix", v |-> 0]
Procedure == [t |-> "procedure", v |-> 0]
Symbol(w) == Bytes(Chars(w))

EmptyMap == [k \in {} |-> Omega]
\* tuple_[key] = value
SetItem(f, key, value) ==
  [k \in (DOMAIN f) \cup {key} |-> IF k = key THEN value ELSE f[k]]
\* Tuple([(Integer(0), a), (Integer(1), b)])
Pair(a, b) == Tuple(SetItem(SetItem(EmptyMap, Integer(0), a), Integer(1), b))
\* the Tuple {0: s[1], 1: s[2], ...}
RECURSIVE Positional(_)
Positional(s) ==
  IF s = <<>> THEN EmptyMap
  ELSE SetItem(Positional(Front(s)), Integer(Len(s) - 1), Last(s))

\* ------------------------------------------------------------------------
\* Syntax constants of SimpleExpressionPickler
\* ------------------------------------------------------------------------
TUPLE_OPEN == "["
TUPLE_CLOSE == "]"
EVAL_DATA_OPEN == "{"
EVAL_DATA_CLOSE == "}"
SEQUENCE_OPEN == "("
SEQUENCE_CLOSE == ")"
ASSOCIATION_OPERATOR == ":"
QUOTE_OPERATOR == "'"
UNQUOTE_OPERATOR == ","
UNQUOTE_SPLICE_OPERATOR == "U+0060"
CONSTANT_INDICATOR == "#"
COMMENT_INDICATOR == ";"

Digits == {"0","1","2","3","4","5","6","7","8","9"}
Letters ==
  {"a","b","c","d","e","f","g","h","i","j","k","l","m",
   "n","o","p","q","r","s","t","u","v","w","x","y","z",
   "A","B","C","D","E","F","G","H","I","J","K","L","M",
   "N","O","P","Q","R","S","T","U","V","W","X","Y","Z"}
INTEGER_INITIAL == Digits \cup {"+", "-"}
INTEGER_SUBSEQUENT == Digits
ID_INITIAL ==
  Letters \cup {"!","?","*","+","-","/","%","\\","&","|","^","~","<","=",">"}
ID_SUBSEQUENT == ID_INITIAL \cup INTEGER_SUBSEQUENT
\* _tokenize reads self.SYMBOL_INITIAL / self.SYMBOL_SUBSEQUENT: the names the
\* class defines for these sets are ID_INITIAL / ID_SUBSEQUENT.
SYMBOL_INITIAL == ID_INITIAL
SYMBOL_SUBSEQUENT == ID_SUBSEQUENT

TOKEN_LITERAL == 0
TOKEN_SYNTAX == 1
Syntax(c) == [tt |-> TOKEN_SYNTAX, tv |-> c]
Literal(val) == [tt |-> TOKEN_LITERAL, tv |-> val]
\* the pair lookahead gives for "no next token": (None, None)
NoToken == [tt |-> -1, tv |-> None]

\* not len(c.strip())
Whitespace == {" ", "\n", "\t", "\r"}
\* len(u"".join([c, u"a"]).splitlines()) > 1
LineBreaks == {"\n", "\r"}

\* ------------------------------------------------------------------------
\* SimpleExpressionPickler._tokenize
\* ------------------------------------------------------------------------
INITIAL == "INITIAL"
COMMENT == "COMMENT"
SYMBOL == "SYMBOL"
CONSTANT_STATE == "CONSTANT"
NUMBER == "NUMBER"
UNICODE == "UNICODE"

parenopen_tuple == {"["}
parenopen_eval_data == {"{"}
parenopen_sequence == {"("}
parenopen == parenopen_sequence \cup (parenopen_eval_data \cup parenopen_tuple)
parenclose_tuple == {"]"}
parenclose_eval_data == {"}"}
parenclose_sequence == {")"}
parenclose == parenclose_sequence \cup (parenclose_eval_data \cup parenclose_tuple)
parenmap == ("]" :> {"["}) @@ ("}" :> {"{"}) @@ (")" :> {"("})

\* Keyed by the mark that ends a string; the value is the set of marks that
\* may have begun it.
unicodemap ==
  ("\"" :> {"\""}) @@
  ("U+201D" :> {"U+201E", "U+201C", "U+201D"}) @@
  ("U+2019" :> {"U+201A", "U+2018", "U+2019"}) @@
  ("U+00BB" :> {"U+00AB", "U+00BB"}) @@
  ("U+00AB" :> {"U+00AB", "U+00BB"}) @@
  ("U+2039" :> {"U+2039", "U+203A"}) @@
  ("U+203A" :> {"U+2039", "U+203A"}) @@
  ("U+300C" :> {"U+300D"}) @@
  ("U+300E" :> {"U+300F"})
unicodeopen == UNION {unicodemap[k] : k \in DOMAIN unicodemap}
unicodeclose == DOMAIN unicodemap
\* unicodemap.get(n, ())
unicodemap_get(n) == IF n \in DOMAIN unicodemap THEN unicodemap[n] ELSE {}

association_operator == {":"}
quote_operator == {"'"}
unquote_operator == {","}
unquote_splice_operator == {"U+0060"}
constant_indicator == {"#"}
comment_indicator == {";"}

DigitVal(c) ==
  CASE c = "0" -> 0 [] c = "1" -> 1 [] c = "2" -> 2 [] c = "3" -> 3
    [] c = "4" -> 4 [] c = "5" -> 5 [] c = "6" -> 6 [] c = "7" -> 7
    [] c = "8" -> 8 [] c = "9" -> 9

RECURSIVE DecimalOf(_)
DecimalOf(s) ==
  IF s = <<>> THEN 0 ELSE 10 * DecimalOf(Front(s)) + DigitVal(Last(s))

\* Integer(value) of a text of decimal digits with an optional sign
IntegerOf(s) ==
  IF Head(s) = "-" THEN 0 - DecimalOf(Tail(s))
  ELSE IF Head(s) = "+" THEN DecimalOf(Tail(s))
  ELSE DecimalOf(s)

\* s.replace(old, new) where old is a text of two code points
RECURSIVE Replace2(_, _, _)
Replace2(s, old, new) ==
  IF Len(s) < 2 THEN s
  ELSE IF SubSeq(s, 1, 2) = old THEN new \o Replace2(SubSeq(s, 3, Len(s)), old, new)
  ELSE <<Head(s)>> \o Replace2(Tail(s), old, new)

\* s.replace(old, new) where old is one code point
RECURSIVE Replace1(_, _, _)
Replace1(s, old, new) ==
  IF s = <<>> THEN s
  ELSE (IF Head(s) = old THEN new ELSE <<Head(s)>>) \o Replace1(Tail(s), old, new)

\* The DFA's variables at the start of _tokenize.
TokenizerInit ==
  [state |-> INITIAL, value |-> <<>>, count |-> 0, initial |-> "", parens |-> <<>>]

\* What one pass through the body of the for loop leaves behind: the DFA's
\* variables, the token yielded (at most one) and the exception raised.
Pass(d, yield, raise) == [d |-> d, yield |-> yield, raise |-> raise]

\* if state == UNICODE:
tokenize_unicode(d, c, n) ==
  IF d.state # UNICODE THEN Pass(d, <<>>, "")
  ELSE IF c = None THEN Pass(d, <<>>, "TokenError")
  ELSE IF c \in unicodeclose /\ d.initial \in unicodemap[c] /\ d.count % 2 = 0
  THEN Pass([d EXCEPT !.state = INITIAL],
            <<Literal(Unicode(Replace2(d.value, <<"\\", "\"">>, <<"\"">>)))>>, "")
  ELSE LET cnt == IF c = "\\" THEN d.count + 1 ELSE 0
           skip == c = "\\" /\ (n = "\\" \/ d.initial \in unicodemap_get(n))
                     /\ cnt % 2 = 1
       IN Pass([d EXCEPT !.count = cnt,
                         !.value = IF skip THEN d.value ELSE d.value \o <<c>>],
               <<>>, "")

\* if state == NUMBER:
tokenize_number(d, c, n) ==
  IF d.state # NUMBER THEN tokenize_unicode(d, c, n)
  ELSE IF n # None /\ n \notin Whitespace /\ n \in INTEGER_SUBSEQUENT
  THEN Pass([d EXCEPT !.value = d.value \o <<n>>], <<>>, "")
  ELSE Pass([d EXCEPT !.state = INITIAL], <<Literal(Integer(IntegerOf(d.value)))>>, "")

\* if state in (SYMBOL, CONSTANT):
tokenize_symbol(d, c, n) ==
  IF d.state \notin {SYMBOL, CONSTANT_STATE} THEN tokenize_number(d, c, n)
  ELSE IF n # None /\ n \notin Whitespace /\ n \in SYMBOL_SUBSEQUENT
  THEN Pass([d EXCEPT !.value = d.value \o <<n>>], <<>>, "")
  ELSE IF d.state = SYMBOL
  THEN Pass([d EXCEPT !.state = INITIAL], <<Literal(Bytes(d.value))>>, "")
  ELSE IF d.value = Chars("nil")
  THEN Pass([d EXCEPT !.state = INITIAL], <<Literal(Omega)>>, "")
  ELSE IF d.value = Chars("f")
  THEN Pass([d EXCEPT !.state = INITIAL], <<Literal(Boolean(FALSE))>>, "")
  ELSE IF d.value = Chars("t")
  THEN Pass([d EXCEPT !.state = INITIAL], <<Literal(Boolean(TRUE))>>, "")
  ELSE Pass(d, <<>>, "TokenError")

\* tokenize_constant that takes whitespace after the indicator for an error.
tokenize_constant_strict(d, c, n) ==
  IF ~(d.state = CONSTANT_STATE /\ d.value = <<>>) THEN tokenize_symbol(d, c, n)
  ELSE IF n = None THEN Pass(d, <<>>, "TokenError")
  ELSE IF n \in SYMBOL_INITIAL THEN Pass([d EXCEPT !.value = d.value \o <<n>>], <<>>, "")
  ELSE IF n \in comment_indicator
  THEN Pass([d EXCEPT !.state = COMMENT, !.initial = d.state], <<>>, "")
  ELSE Pass(d, <<>>, "TokenError")

\* if CONSTANT == state and not len(value):
tokenize_constant(d, c, n) ==
  IF ~(d.state = CONSTANT_STATE /\ d.value = <<>>) THEN tokenize_symbol(d, c, n)
  ELSE IF n = None THEN Pass(d, <<>>, "TokenError")
  ELSE IF n \in Whitespace THEN Pass(d, <<>>, "")
  ELSE IF n \in SYMBOL_INITIAL THEN Pass([d EXCEPT !.value = d.value \o <<n>>], <<>>, "")
  ELSE IF n \in comment_indicator
  THEN Pass([d EXCEPT !.state = COMMENT, !.initial = d.state], <<>>, "")
  ELSE Pass(d, <<>>, "TokenError")

\* The COMMENT block that goes back to INITIAL at the end of every comment.
tokenize_comment_to_initial(d, c, n) ==
  IF d.state = COMMENT /\ c \in LineBreaks
  THEN tokenize_constant([d EXCEPT !.state = INITIAL, !.initial = ""], c, n)
  ELSE tokenize_constant(d, c, n)

\* if COMMENT == state:
tokenize_comment(d, c, n) ==
  IF d.state = COMMENT /\ c \in LineBreaks
  THEN tokenize_constant([d EXCEPT !.state = d.initial, !.initial = ""], c, n)
  ELSE tokenize_constant(d, c, n)

\* if state == INITIAL: ... and the blocks it passes through to
tokenize_initial(d, c, n) ==
  IF d.state # INITIAL THEN tokenize_comment(d, c, n)
  ELSE IF c \in Whitespace THEN Pass(d, <<>>, "")
  ELSE IF c \in association_operator THEN Pass(d, <<Syntax(ASSOCIATION_OPERATOR)>>, "")
  ELSE IF c \in quote_operator THEN Pass(d, <<Syntax(QUOTE_OPERATOR)>>, "")
  ELSE IF c \in unquote_operator THEN Pass(d, <<Syntax(UNQUOTE_OPERATOR)>>, "")
  ELSE IF c \in unquote_splice_operator
  THEN Pass(d, <<Syntax(UNQUOTE_SPLICE_OPERATOR)>>, "")
  ELSE IF c \in parenopen
  THEN Pass([d EXCEPT !.parens = Append(d.parens, c)], <<Syntax(c)>>, "")
  ELSE IF c \in parenclose
  THEN IF d.parens = <<>> THEN Pass(d, <<>>, "TokenError")
       ELSE IF Last(d.parens) \notin parenmap[c] THEN Pass(d, <<>>, "TokenError")
       ELSE Pass([d EXCEPT !.parens = Front(d.parens)], <<Syntax(c)>>, "")
  ELSE IF c \in unicodeopen
  THEN Pass([d EXCEPT !.state = UNICODE, !.value = <<>>, !.count = 0, !.initial = c],
            <<>>, "")
  ELSE IF c \in constant_indicator
  THEN tokenize_comment([d EXCEPT !.state = CONSTANT_STATE, !.value = <<>>], c, n)
  ELSE IF c \in comment_indicator
  THEN Pass([d EXCEPT !.state = COMMENT, !.initial = d.state], <<>>, "")
  ELSE IF c \in SYMBOL_INITIAL
  THEN IF c \in INTEGER_INITIAL /\ n = None
       THEN Pass(d, <<>>, "TypeError")   \* None in u"0123456789"
       ELSE IF c \in INTEGER_INITIAL /\ n \in INTEGER_SUBSEQUENT
       THEN tokenize_comment([d EXCEPT !.state = NUMBER, !.value = <<c>>], c, n)
       ELSE tokenize_comment([d EXCEPT !.state = SYMBOL, !.value = <<c>>], c, n)
  ELSE IF c \in INTEGER_INITIAL
  THEN tokenize_comment([d EXCEPT !.state = NUMBER, !.value = <<c>>], c, n)
  ELSE tokenize_comment(d, c, n)

\* tokenize_eof that takes an input in which no literal began for cut short.
tokenize_eof_nothing_read(d) ==
  IF Len(d.parens) > 0 THEN "TokenError"
  ELSE IF d.state = COMMENT THEN "TokenError"
  ELSE IF d.value = <<>> THEN "TokenError"
  ELSE "StopIteration"

\* The checks after the for loop.
tokenize_eof(d) ==
  IF Len(d.parens) > 0 THEN "TokenError"
  ELSE IF d.state = COMMENT THEN "TokenError"
  ELSE "StopIteration"

\* lookahead(iterable): the pair (current, next) at position i, next being
\* None at the last element.
lookahead(iterable, i) ==
  <<iterable[i], IF i < Len(iterable) THEN iterable[i + 1] ELSE None>>

\* ------------------------------------------------------------------------
\* SimpleExpressionPickler._parse
\* ------------------------------------------------------------------------
SENTINEL == [t |-> "SENTINEL", v |-> 0]
BOM == "U+FEFF"

quotedmap ==
  (QUOTE_OPERATOR :> Symbol("quote")) @@
  (UNQUOTE_OPERATOR :> Symbol("unquote")) @@
  (UNQUOTE_SPLICE_OPERATOR :> Symbol("unquote-splice"))

\* opening token -> closing token
parse_parenmap ==
  (TUPLE_OPEN :> TUPLE_CLOSE) @@
  (EVAL_DATA_OPEN :> EVAL_DATA_CLOSE) @@
  (SEQUENCE_OPEN :> SEQUENCE_CLOSE)
parse_closers == {parse_parenmap[k] : k \in DOMAIN parse_parenmap}

\* The parser's variables at the start of _parse.
ParserInit ==
  [key |-> SENTINEL, count |-> 0, tuple_ |-> EmptyMap,
   quotes |-> <<>>, counts |-> <<>>, tuples |-> <<>>, parens |-> <<>>]

Parsed(p, raise) == [p |-> p, raise |-> raise]

\* wrap_quotes that takes the quotes in the order they were read.
RECURSIVE wrap_quotes_forward(_, _)
wrap_quotes_forward(quotes, value) ==
  IF quotes = <<>> THEN value
  ELSE wrap_quotes_forward(Tail(quotes), Pair(Head(quotes), value))

\* for quote in reversed(quotes): value = Tuple([(0, quote), (1, value)])
RECURSIVE wrap_quotes(_, _)
wrap_quotes(quotes, value) ==
  IF quotes = <<>> THEN value
  ELSE wrap_quotes(Front(quotes), Pair(Last(quotes), value))

\* eval_data_value without the unquote around each value.
eval_data_value_plain(tuple_) ==
  Pair(quotedmap[QUOTE_OPERATOR], Tuple(tuple_))

\* sequence_value taking the values from the highest key down.
sequence_value_descending(tuple_) ==
  Sequence([i \in 1 .. Cardinality(DOMAIN tuple_) |->
              tuple_[Integer(Cardinality(DOMAIN tuple_) - i)]])

\* The value a closing token makes of the container it closes.
eval_data_value(tuple_) ==
  Pair(quotedmap[QUOTE_OPERATOR],
       Tuple([k \in DOMAIN tuple_ |-> Pair(quotedmap[UNQUOTE_OPERATOR], tuple_[k])]))

is_contiguous(tuple_) ==
  DOMAIN tuple_ = {Integer(x) : x \in 0 .. Cardinality(DOMAIN tuple_) - 1}

sequence_value(tuple_) ==
  Sequence([i \in 1 .. Cardinality(DOMAIN tuple_) |-> tuple_[Integer(i - 1)]])

\* parse_insert with the positional counter left where it was.
parse_insert_same_count(p, value0, n) ==
  LET value == wrap_quotes(p.quotes, value0)
      q == [p EXCEPT !.quotes = <<>>]
  IN IF q.key = SENTINEL /\ n.tt = TOKEN_SYNTAX /\ n.tv = ASSOCIATION_OPERATOR
     THEN Parsed([q EXCEPT !.key = value], "")
     ELSE LET key == IF q.key = SENTINEL THEN Integer(q.count) ELSE q.key
          IN Parsed([q EXCEPT !.tuple_ = SetItem(q.tuple_, key, value),
                              !.key = SENTINEL], "")

\* Quote handling, key selection and insertion: the tail of the loop body.
\* Key, value insertion that stores every key as it is.
parse_insert_plain_key(p, value0, n) ==
  LET value == wrap_quotes(p.quotes, value0)
      q == [p EXCEPT !.quotes = <<>>]
  IN IF q.key = SENTINEL /\ n.tt = TOKEN_SYNTAX /\ n.tv = ASSOCIATION_OPERATOR
     THEN Parsed([q EXCEPT !.key = value], "")
     ELSE LET key == IF q.key = SENTINEL THEN Integer(q.count) ELSE q.key
              cnt == IF q.key = SENTINEL THEN q.count + 1 ELSE q.count
          IN Parsed([q EXCEPT !.count = cnt,
                              !.tuple_ = SetItem(q.tuple_, key, value),
                              !.key = SENTINEL], "")

parse_insert(p, value0, n) ==
  LET value == wrap_quotes(p.quotes, value0)
      q == [p EXCEPT !.quotes = <<>>]
  IN IF q.key = SENTINEL /\ n.tt = TOKEN_SYNTAX /\ n.tv = ASSOCIATION_OPERATOR
     THEN Parsed([q EXCEPT !.key = value], "")
     ELSE LET key1 == IF q.key = SENTINEL THEN Integer(q.count) ELSE q.key
              cnt == IF q.key = SENTINEL THEN q.count + 1 ELSE q.count
              key == IF key1.t = "unicode" THEN Unicode(<<BOM>> \o key1.v) ELSE key1
          IN Parsed([q EXCEPT !.count = cnt,
                              !.tuple_ = SetItem(q.tuple_, key, value),
                              !.key = SENTINEL], "")

\* elif cv in parenmap.values():
parse_close(p, cv, n) ==
  IF p.key # SENTINEL THEN Parsed(p, "SyntaxError")
  ELSE IF p.parens = <<>> THEN Parsed(p, "IndexError")
  ELSE IF Last(p.parens) # cv
  THEN Parsed([p EXCEPT !.parens = Front(p.parens)], "SyntaxError")
  ELSE IF cv = SEQUENCE_CLOSE /\ ~is_contiguous(p.tuple_)
  THEN Parsed([p EXCEPT !.parens = Front(p.parens)], "SyntaxError")
  ELSE LET value == IF cv = TUPLE_CLOSE THEN Tuple(p.tuple_)
                    ELSE IF cv = EVAL_DATA_CLOSE THEN eval_data_value(p.tuple_)
                    ELSE sequence_value(p.tuple_)
       IN parse_insert([p EXCEPT !.parens = Front(p.parens),
                                 !.count = Last(p.counts),
                                 !.counts = Front(p.counts),
                                 !.tuple_ = Last(p.tuples),
                                 !.tuples = Front(p.tuples)], value, n)

\* The opening branch that stacks the counter twice.
parse_open_two_counts(p, cv) ==
  [p EXCEPT !.counts = Append(Append(p.counts, p.count), p.count), !.count = 0,
            !.tuples = Append(p.tuples, p.tuple_), !.tuple_ = EmptyMap,
            !.parens = Append(p.parens, parse_parenmap[cv])]

\* elif cv in parenmap.keys():
parse_open(p, cv) ==
  [p EXCEPT !.counts = Append(p.counts, p.count), !.count = 0,
            !.tuples = Append(p.tuples, p.tuple_), !.tuple_ = EmptyMap,
            !.parens = Append(p.parens, parse_parenmap[cv])]

\* One pass through the body of _parse's for loop on the token c, with the
\* token n after it (NoToken at the end of the stream).
parse_iter(p, c, n) ==
  IF c.tt = TOKEN_LITERAL THEN parse_insert(p, c.tv, n)
  ELSE IF c.tv = ASSOCIATION_OPERATOR
  THEN IF p.key = SENTINEL THEN Parsed(p, "SyntaxError") ELSE Parsed(p, "")
  ELSE IF c.tv \in {QUOTE_OPERATOR, UNQUOTE_OPERATOR, UNQUOTE_SPLICE_OPERATOR}
  THEN Parsed([p EXCEPT !.quotes = Append(p.quotes, quotedmap[c.tv])], "")
  ELSE IF c.tv \in DOMAIN parse_parenmap THEN Parsed(parse_open(p, c.tv), "")
  ELSE parse_close(p, c.tv, n)

\* ------------------------------------------------------------------------
\* Code points as numbers, decimal text, Base64, ordering
\* ------------------------------------------------------------------------
Ascii ==
  <<" ", "!", "\"", "#", "$", "%", "&", "'", "(", ")", "*", "+", ",", "-", ".", "/",
    "0", "1", "2", "3", "4", "5", "6", "7", "8", "9", ":", ";", "<", "=", ">", "?",
    "@", "A", "B", "C", "D", "E", "F", "G", "H", "I", "J", "K", "L", "M", "N", "O",
    "P", "Q", "R", "S", "T", "U", "V", "W", "X", "Y", "Z", "[", "\\", "]", "^", "_",
    "U+0060", "a", "b", "c", "d", "e", "f", "g", "h", "i", "j", "k", "l", "m", "n",
    "o", "p", "q", "r", "s", "t", "u", "v", "w", "x", "y", "z", "{", "|", "}", "~">>

\* ord(c)
Ord(c) ==
  IF c = "\n" THEN 10
  ELSE IF c = "\t" THEN 9
  ELSE IF c = "\r" THEN 13
  ELSE IF c = BOM THEN 65279
  ELSE 31 + (CHOOSE i \in 1 .. Len(Ascii) : Ascii[i] = c)

DigitChar(i) == Ascii[17 + i]

RECURSIVE NatText(_)
NatText(i) == IF i < 10 THEN <<DigitChar(i)>> ELSE NatText(i \div 10) \o <<DigitChar(i % 10)>>

\* unicode(i) of an integer i
IntText(i) == IF i < 0 THEN <<"-">> \o NatText(0 - i) ELSE NatText(i)

B64 ==
  <<"A", "B", "C", "D", "E", "F", "G", "H", "I", "J", "K", "L", "M", "N", "O", "P",
    "Q", "R", "S", "T", "U", "V", "W", "X", "Y", "Z", "a", "b", "c", "d", "e", "f",
    "g", "h", "i", "j", "k", "l", "m", "n", "o", "p", "q", "r", "s", "t", "u", "v",
    "w", "x", "y", "z", "0", "1", "2", "3", "4", "5", "6", "7", "8", "9", "+", "/">>

\* b2a_base64(s).strip()
RECURSIVE b2a_base64(_)
b2a_base64(s) ==
  IF s = <<>> THEN <<>>
  ELSE LET b1 == Ord(s[1])
           b2 == IF Len(s) >= 2 THEN Ord(s[2]) ELSE 0
           b3 == IF Len(s) >= 3 THEN Ord(s[3]) ELSE 0
           c1 == B64[(b1 \div 4) + 1]
           c2 == B64[((b1 % 4) * 16 + (b2 \div 16)) + 1]
           c3 == IF Len(s) >= 2 THEN B64[((b2 % 16) * 4 + (b3 \div 64)) + 1] ELSE "="
           c4 == IF Len(s) >= 3 THEN B64[(b3 % 64) + 1] ELSE "="
       IN <<c1, c2, c3, c4>> \o
          (IF Len(s) > 3 THEN b2a_base64(SubSeq(s, 4, Len(s))) ELSE <<>>)

\* Lexicographic order of two texts by code point.
RECURSIVE text_less(_, _)
text_less(a, b) ==
  IF b = <<>> THEN FALSE
  ELSE IF a = <<>> THEN TRUE
  ELSE IF Ord(Head(a)) # Ord(Head(b)) THEN Ord(Head(a)) < Ord(Head(b))
  ELSE text_less(Tail(a), Tail(b))

\* The order sorted() puts hashable Values in: None first, then the numbers
\* by value, then the texts by content.
Numeric(x) == x.t \in {"bool", "int", "frac"}
Numer(x) == IF x.t = "bool" THEN (IF x.v THEN 1 ELSE 0)
            ELSE IF x.t = "int" THEN x.v ELSE x.v[1]
Denom(x) == IF x.t = "frac" THEN x.v[2] ELSE 1
Rank(x) == IF x.t = "omega" THEN 0 ELSE IF Numeric(x) THEN 1 ELSE 2
value_less(a, b) ==
  IF Rank(a) # Rank(b) THEN Rank(a) < Rank(b)
  ELSE IF Rank(a) = 0 THEN FALSE
  ELSE IF Rank(a) = 1
  THEN IF Numer(a) * Denom(b) # Numer(b) * Denom(a)
       THEN Numer(a) * Denom(b) < Numer(b) * Denom(a)
       ELSE a.t # b.t /\ (a.t = "bool" \/ (a.t = "int" /\ b.t = "frac"))
  ELSE IF a.v # b.v THEN text_less(a.v, b.v)
  ELSE a.t = "bytes" /\ b.t = "unicode"

\* sorted(S)
RECURSIVE sorted(_)
sorted(S) ==
  IF S = {} THEN <<>>
  ELSE LET m == CHOOSE x \in S : \A y \in S \ {x} : value_less(x, y)
       IN <<m>> \o sorted(S \ {m})

\* ------------------------------------------------------------------------
\* SimpleExpressionPickler.dumps / _serialize
\* ------------------------------------------------------------------------
\* Raised that sees an exception only where the text begins.
Raised_first(text) ==
  IF text # <<>> /\ text[1] = "NotImplementedError" THEN "NotImplementedError"
  ELSE IF text # <<>> /\ text[1] = "ValueError" THEN "ValueError"
  ELSE ""

\* An exception raised while a text is built travels in the text as one
\* element that is no code point.
NotImplementedError == "NotImplementedError"
ValueError == "ValueError"
AttributeError == "AttributeError"
Raised(text) ==
  IF \E i \in 1 .. Len(text) : text[i] = NotImplementedError THEN NotImplementedError
  ELSE IF \E i \in 1 .. Len(text) : text[i] = ValueError THEN ValueError
  ELSE ""

\* named_keys that takes the integer keys for positional ones throughout.
named_keys_not_integer(f) == {k \in DOMAIN f : k.t # "int"}

\* is_identifier that looks at the first byte only.
is_identifier_initial(b) == b[1] \in ID_INITIAL

\* for key in count(): if key in kwargs_keys: args.append(...) else: break
positional_count(f) ==
  CHOOSE k \in 0 .. Cardinality(DOMAIN f) :
    /\ \A i \in 0 .. k - 1 : Integer(i) \in DOMAIN f
    /\ Integer(k) \notin DOMAIN f
positional_args(f) == [i \in 1 .. positional_count(f) |-> f[Integer(i - 1)]]
named_keys(f) == (DOMAIN f) \ {Integer(i) : i \in 0 .. positional_count(f) - 1}

is_identifier(b) ==
  /\ b[1] \in ID_INITIAL
  /\ \A i \in 2 .. Len(b) : b[i] \in ID_SUBSEQUENT

\* u'"' + expression.replace(u'"', u'\\"') + u'"'
serialize_unicode(text) == <<"\"">> \o Replace1(text, "\"", <<"\\", "\"">>) \o <<"\"">>

serialize_bytes(b) ==
  IF Len(b) = 0 THEN <<CONSTANT_INDICATOR>> \o Chars("nil")
  ELSE IF is_identifier(b) THEN b
  ELSE <<TUPLE_OPEN>> \o Join(<<" ">>, <<Chars("byte-array"), b2a_base64(b)>>)
         \o <<TUPLE_CLOSE>>

RECURSIVE simple_serialize(_), simple_dumps(_)

\* dumps(*args)
simple_dumps(args) ==
  IF Len(args) < 1 THEN <<>>
  ELSE IF Len(args) > 1
  THEN Join(<<" ">>, [i \in 1 .. Len(args) |-> simple_dumps(<<args[i]>>)])
  ELSE simple_serialize(args[1])

simple_serialize(expression) ==
  CASE expression.t = "omega" -> <<CONSTANT_INDICATOR>> \o Chars("nil")
    [] expression.t = "bool" ->
         <<CONSTANT_INDICATOR>> \o (IF expression.v THEN Chars("t") ELSE Chars("f"))
    [] expression.t = "int" -> IntText(expression.v)
    [] expression.t = "frac" ->
         <<TUPLE_OPEN>> \o
         Join(<<" ">>, <<Chars("rational"),
                         simple_dumps(<<Integer(expression.v[1])>>),
                         simple_dumps(<<Integer(expression.v[2])>>)>>) \o
         <<TUPLE_CLOSE>>
    [] expression.t = "unicode" -> serialize_unicode(expression.v)
    [] expression.t = "bytes" -> serialize_bytes(expression.v)
    [] expression.t = "set" ->
         <<TUPLE_OPEN>> \o
         Join(<<" ">>, <<Chars("set"), simple_dumps(sorted(expression.v))>>) \o
         <<TUPLE_CLOSE>>
    [] expression.t = "tuple" ->
         LET f == expression.v
             args == positional_args(f)
             keys == sorted(named_keys(f))
         IN <<TUPLE_OPEN>> \o
            simple_dumps(args) \o
            (IF Len(args) > 0 /\ Len(keys) > 0 THEN <<" ">> ELSE <<>>) \o
            Join(<<" ">>, [i \in 1 .. Len(keys) |->
                   simple_dumps(<<keys[i]>>) \o <<ASSOCIATION_OPERATOR>> \o
                   simple_dumps(<<f[keys[i]]>>)]) \o
            <<TUPLE_CLOSE>>
    [] expression.t = "relation" -> <<NotImplementedError>>
    [] expression.t = "seq" ->
         <<SEQUENCE_OPEN>> \o simple_dumps(expression.v) \o <<SEQUENCE_CLOSE>>
    [] expression.t = "matrix" -> <<NotImplementedError>>
    [] expression.t = "procedure" -> <<NotImplementedError>>
    [] OTHER -> <<ValueError>>

\* ------------------------------------------------------------------------
\* CanonicalExpressionPickler.dumps / _serialize / load
\* ------------------------------------------------------------------------
\* Canonical output is a sequence of octets 0 .. 255. An exception raised
\* while it is built travels in it as one element that is no octet.
canonical_NotImplementedError == -1
canonical_ValueError == -2
canonical_Raised(octets) ==
  IF \E i \in 1 .. Len(octets) : octets[i] = canonical_NotImplementedError
  THEN NotImplementedError
  ELSE IF \E i \in 1 .. Len(octets) : octets[i] = canonical_ValueError THEN ValueError
  ELSE ""

\* The syntax the canonical pickler reads through self; canonical.py defines
\* ASSOCIATION_OPERATOR only, the rest is the grammar's.
canonical_TUPLE_OPEN == "["
canonical_TUPLE_CLOSE == "]"
canonical_SEQUENCE_OPEN == "("
canonical_SEQUENCE_CLOSE == ")"
canonical_QUOTE_OPERATOR == "'"
canonical_UNQUOTE_OPERATOR == ","
canonical_UNQUOTE_SPLICE_OPERATOR == "U+0060"
canonical_ASSOCIATION_OPERATOR == "="
QUOTE_PROCEDURE == Symbol("quote")
UNQUOTE_PROCEDURE == Symbol("unquote")
UNQUOTE_SPLICE_PROCEDURE == Symbol("unquote-splice")

\* text.encode('utf-8')
utf8(text) ==
  Concat([i \in 1 .. Len(text) |->
            IF text[i] = BOM THEN <<239, 187, 191>> ELSE <<Ord(text[i])>>])

\* s2varstring(s): the length of s in decimal, a colon, s
s2varstring(s) == utf8(NatText(Len(s))) \o <<Ord(":")>> \o s

\* i2bytearray(i): the shortest big-endian two's-complement octets of i
RECURSIVE i2bytearray(_)
i2bytearray(i) ==
  LET low == i % 256
  IN IF -128 <= i /\ i < 128 THEN <<low>>
     ELSE i2bytearray((i - low) \div 256) \o <<low>>

\* special_pattern without the test of the length.
special_pattern_loose(f) == {Integer(0), Integer(1)} \subseteq DOMAIN f

\* len(expr) == 2 and set(expr.keys()) == set(range(2))
special_pattern(f) == DOMAIN f = {Integer(0), Integer(1)}

RECURSIVE canonical_serialize(_), canonical_dumps(_)

\* _serialize that writes the Integer zero as the one octet 0.
canonical_serialize_zero_octet(expression) ==
  CASE expression.t = "omega" -> s2varstring(<<>>)
    [] expression.t = "bool" ->
         utf8(<<canonical_TUPLE_OPEN>>) \o
         s2varstring(utf8(IF expression.v THEN Chars("true") ELSE Chars("false"))) \o
         utf8(<<canonical_TUPLE_CLOSE>>)
    [] expression.t = "int" ->
         utf8(<<canonical_TUPLE_OPEN>>) \o
         s2varstring(utf8(Chars("integer"))) \o
         s2varstring(i2bytearray(expression.v)) \o
         utf8(<<canonical_TUPLE_CLOSE>>)
    [] expression.t = "frac" ->
         utf8(<<canonical_TUPLE_OPEN>>) \o
         s2varstring(utf8(Chars("rational"))) \o
         canonical_serialize(Integer(expression.v[1])) \o
         canonical_serialize(Integer(expression.v[2])) \o
         utf8(<<canonical_TUPLE_CLOSE>>)
    [] expression.t = "unicode" ->
         utf8(<<canonical_TUPLE_OPEN>>) \o
         s2varstring(utf8(Chars("string"))) \o
         s2varstring(utf8(expression.v)) \o
         utf8(<<canonical_TUPLE_CLOSE>>)
    [] expression.t = "bytes" -> s2varstring(utf8(expression.v))
    [] expression.t = "set" ->
         LET elems == sorted(expression.v)
         IN utf8(<<canonical_TUPLE_OPEN>>) \o
            s2varstring(utf8(Chars("set"))) \o
            Concat([i \in 1 .. Len(elems) |-> canonical_serialize(elems[i])]) \o
            utf8(<<canonical_TUPLE_CLOSE>>)
    [] expression.t = "tuple" ->
         LET f == expression.v
             args == positional_args(f)
             keys == sorted(named_keys(f))
         IN IF special_pattern(f) /\ f[Integer(0)] = QUOTE_PROCEDURE
            THEN utf8(<<canonical_QUOTE_OPERATOR>>) \o canonical_serialize(f[Integer(1)])
            ELSE IF special_pattern(f) /\ f[Integer(0)] = UNQUOTE_PROCEDURE
            THEN utf8(<<canonical_UNQUOTE_OPERATOR>>) \o canonical_serialize(f[Integer(1)])
            ELSE IF special_pattern(f) /\ f[Integer(0)] = UNQUOTE_SPLICE_PROCEDURE
            THEN utf8(<<canonical_UNQUOTE_SPLICE_OPERATOR>>) \o
                 canonical_serialize(f[Integer(1)])
            ELSE utf8(<<canonical_TUPLE_OPEN>>) \o
                 Concat([i \in 1 .. Len(args) |-> canonical_serialize(args[i])]) \o
                 Concat([i \in 1 .. Len(keys) |->
                           utf8(<<canonical_ASSOCIATION_OPERATOR>>) \o
                           canonical_serialize(keys[i]) \o
                           canonical_serialize(f[keys[i]])]) \o
                 utf8(<<canonical_TUPLE_CLOSE>>)
    [] expression.t = "relation" -> <<canonical_NotImplementedError>>
    [] expression.t = "seq" ->
         utf8(<<canonical_SEQUENCE_OPEN>>) \o
         Concat([i \in 1 .. Len(expression.v) |-> canonical_serialize(expression.v[i])]) \o
         utf8(<<canonical_SEQUENCE_CLOSE>>)
    [] expression.t = "matrix" -> <<canonical_NotImplementedError>>
    [] expression.t = "procedure" -> <<canonical_NotImplementedError>>
    [] OTHER -> <<canonical_ValueError>>

\* _serialize that takes the elements of a Set and the named keys of a Tuple
\* in the order the container gives them, without sorting.
canonical_serialize_as_iterated(expression) ==
  CASE expression.t = "omega" -> s2varstring(<<>>)
    [] expression.t = "bool" ->
         utf8(<<canonical_TUPLE_OPEN>>) \o
         s2varstring(utf8(IF expression.v THEN Chars("true") ELSE Chars("false"))) \o
         utf8(<<canonical_TUPLE_CLOSE>>)
    [] expression.t = "int" ->
         utf8(<<canonical_TUPLE_OPEN>>) \o
         s2varstring(utf8(Chars("integer"))) \o
         s2varstring(IF expression.v # 0 THEN i2bytearray(expression.v) ELSE <<>>) \o
         utf8(<<canonical_TUPLE_CLOSE>>)
    [] expression.t = "frac" ->
         utf8(<<canonical_TUPLE_OPEN>>) \o
         s2varstring(utf8(Chars("rational"))) \o
         canonical_serialize(Integer(expression.v[1])) \o
         canonical_serialize(Integer(expression.v[2])) \o
         utf8(<<canonical_TUPLE_CLOSE>>)
    [] expression.t = "unicode" ->
         utf8(<<canonical_TUPLE_OPEN>>) \o
         s2varstring(utf8(Chars("string"))) \o
         s2varstring(utf8(expression.v)) \o
         utf8(<<canonical_TUPLE_CLOSE>>)
    [] expression.t = "bytes" -> s2varstring(utf8(expression.v))
    [] expression.t = "set" ->
         LET elems == IF "order" \in DOMAIN expression THEN expression.order
                      ELSE sorted(expression.v)
         IN utf8(<<canonical_TUPLE_OPEN>>) \o
            s2varstring(utf8(Chars("set"))) \o
            Concat([i \in 1 .. Len(elems) |-> canonical_serialize(elems[i])]) \o
            utf8(<<canonical_TUPLE_CLOSE>>)
    [] expression.t = "tuple" ->
         LET f == expression.v
             args == positional_args(f)
             keys == IF "order" \in DOMAIN expression
                     THEN SelectSeq(expression.order, LAMBDA k : k \in named_keys(f))
                     ELSE sorted(named_keys(f))
         IN IF special_pattern(f) /\ f[Integer(0)] = QUOTE_PROCEDURE
            THEN utf8(<<canonical_QUOTE_OPERATOR>>) \o canonical_serialize(f[Integer(1)])
            ELSE IF special_pattern(f) /\ f[Integer(0)] = UNQUOTE_PROCEDURE
            THEN utf8(<<canonical_UNQUOTE_OPERATOR>>) \o canonical_serialize(f[Integer(1)])
            ELSE IF special_pattern(f) /\ f[Integer(0)] = UNQUOTE_SPLICE_PROCEDURE
            THEN utf8(<<canonical_UNQUOTE_SPLICE_OPERATOR>>) \o
                 canonical_serialize(f[Integer(1)])
            ELSE utf8(<<canonical_TUPLE_OPEN>>) \o
                 Concat([i \in 1 .. Len(args) |-> canonical_serialize(args[i])]) \o
                 Concat([i \in 1 .. Len(keys) |->
                           utf8(<<canonical_ASSOCIATION_OPERATOR>>) \o
                           canonical_serialize(keys[i]) \o
                           canonical_serialize(f[keys[i]])]) \o
                 utf8(<<canonical_TUPLE_CLOSE>>)
    [] expression.t = "relation" -> <<canonical_NotImplementedError>>
    [] expression.t = "seq" ->
         utf8(<<canonical_SEQUENCE_OPEN>>) \o
         Concat([i \in 1 .. Len(expression.v) |-> canonical_serialize(expression.v[i])]) \o
         utf8(<<canonical_SEQUENCE_CLOSE>>)
    [] expression.t = "matrix" -> <<canonical_NotImplementedError>>
    [] expression.t = "procedure" -> <<canonical_NotImplementedError>>
    [] OTHER -> <<canonical_ValueError>>

\* dumps(*args)
canonical_dumps(args) ==
  IF Len(args) < 1 THEN <<>>
  ELSE IF Len(args) > 1
  THEN Concat([i \in 1 .. Len(args) |-> canonical_dumps(<<args[i]>>)])
  ELSE canonical_serialize(args[1])

canonical_serialize(expression) ==
  CASE expression.t = "omega" -> s2varstring(<<>>)
    [] expression.t = "bool" ->
         utf8(<<canonical_TUPLE_OPEN>>) \o
         s2varstring(utf8(IF expression.v THEN Chars("true") ELSE Chars("false"))) \o
         utf8(<<canonical_TUPLE_CLOSE>>)
    [] expression.t = "int" ->
         utf8(<<canonical_TUPLE_OPEN>>) \o
         s2varstring(utf8(Chars("integer"))) \o
         s2varstring(IF expression.v # 0 THEN i2bytearray(expression.v) ELSE <<>>) \o
         utf8(<<canonical_TUPLE_CLOSE>>)
    [] expression.t = "frac" ->
         utf8(<<canonical_TUPLE_OPEN>>) \o
         s2varstring(utf8(Chars("rational"))) \o
         canonical_serialize(Integer(expression.v[1])) \o
         canonical_serialize(Integer(expression.v[2])) \o
         utf8(<<canonical_TUPLE_CLOSE>>)
    [] expression.t = "unicode" ->
         utf8(<<canonical_TUPLE_OPEN>>) \o
         s2varstring(utf8(Chars("string"))) \o
         s2varstring(utf8(expression.v)) \o
         utf8(<<canonical_TUPLE_CLOSE>>)
    [] expression.t = "bytes" -> s2varstring(utf8(expression.v))
    [] expression.t = "set" ->
         LET elems == sorted(expression.v)
         IN utf8(<<canonical_TUPLE_OPEN>>) \o
            s2varstring(utf8(Chars("set"))) \o
            Concat([i \in 1 .. Len(elems) |-> canonical_serialize(elems[i])]) \o
            utf8(<<canonical_TUPLE_CLOSE>>)
    [] expression.t = "tuple" ->
         LET f == expression.v
             args == positional_args(f)
             keys == sorted(named_keys(f))
         IN IF special_pattern(f) /\ f[Integer(0)] = QUOTE_PROCEDURE
            THEN utf8(<<canonical_QUOTE_OPERATOR>>) \o canonical_serialize(f[Integer(1)])
            ELSE IF special_pattern(f) /\ f[Integer(0)] = UNQUOTE_PROCEDURE
            THEN utf8(<<canonical_UNQUOTE_OPERATOR>>) \o canonical_serialize(f[Integer(1)])
            ELSE IF special_pattern(f) /\ f[Integer(0)] = UNQUOTE_SPLICE_PROCEDURE
            THEN utf8(<<canonical_UNQUOTE_SPLICE_OPERATOR>>) \o
                 canonical_serialize(f[Integer(1)])
            ELSE utf8(<<canonical_TUPLE_OPEN>>) \o
                 Concat([i \in 1 .. Len(args) |-> canonical_serialize(args[i])]) \o
                 Concat([i \in 1 .. Len(keys) |->
                           utf8(<<canonical_ASSOCIATION_OPERATOR>>) \o
                           canonical_serialize(keys[i]) \o
                           canonical_serialize(f[keys[i]])]) \o
                 utf8(<<canonical_TUPLE_CLOSE>>)
    [] expression.t = "relation" -> <<canonical_NotImplementedError>>
    [] expression.t = "seq" ->
         utf8(<<canonical_SEQUENCE_OPEN>>) \o
         Concat([i \in 1 .. Len(expression.v) |-> canonical_serialize(expression.v[i])]) \o
         utf8(<<canonical_SEQUENCE_CLOSE>>)
    [] expression.t = "matrix" -> <<canonical_NotImplementedError>>
    [] expression.t = "procedure" -> <<canonical_NotImplementedError>>
    [] OTHER -> <<canonical_ValueError>>

\* load(self, istream): return []
canonical_load(istream) == Sequence(<<>>)

\* ------------------------------------------------------------------------
\* CanonicalExpressionPickler._tokenize
\* ------------------------------------------------------------------------
\* The input is a sequence of octets. A token is the octets it is made of:
\* a syntax token is the unicode string of its one character, an atom the
\* str of its bytes, and Python compares the two by content.
canonical_INITIAL == "INITIAL"
canonical_LENGTH == "LENGTH"
canonical_SEPARATOR == "SEPARATOR"
canonical_SYMBOL == "SYMBOL"

canonical_EVAL_DATA_OPEN == "{"
canonical_EVAL_DATA_CLOSE == "}"

canonical_parenopen ==
  {utf8(<<canonical_SEQUENCE_OPEN>>), utf8(<<canonical_EVAL_DATA_OPEN>>),
   utf8(<<canonical_TUPLE_OPEN>>)}
canonical_parenclose ==
  {utf8(<<canonical_SEQUENCE_CLOSE>>), utf8(<<canonical_EVAL_DATA_CLOSE>>),
   utf8(<<canonical_TUPLE_CLOSE>>)}
canonical_parenmap ==
  (utf8(<<canonical_TUPLE_CLOSE>>) :> utf8(<<canonical_TUPLE_OPEN>>)) @@
  (utf8(<<canonical_EVAL_DATA_CLOSE>>) :> utf8(<<canonical_EVAL_DATA_OPEN>>)) @@
  (utf8(<<canonical_SEQUENCE_CLOSE>>) :> utf8(<<canonical_SEQUENCE_OPEN>>))

canonical_association_operator == {utf8(<<canonical_ASSOCIATION_OPERATOR>>)}
canonical_quote_operator == {utf8(<<canonical_QUOTE_OPERATOR>>)}
canonical_unquote_operator == {utf8(<<canonical_UNQUOTE_OPERATOR>>)}
canonical_unquote_splice_operator == {utf8(<<canonical_UNQUOTE_SPLICE_OPERATOR>>)}

\* the octets of '123456789' and of '0123456789'
NonZeroDigitOctets == {Ord(c) : c \in Digits \ {"0"}}
DigitOctets == {Ord(c) : c \in Digits}

\* int(value)
RECURSIVE canonical_int(_)
canonical_int(value) ==
  IF value = <<>> THEN 0
  ELSE 10 * canonical_int(Front(value)) + (Last(value) - Ord("0"))

\* parens = []; state = INITIAL
CanonicalTokenizerInit ==
  [state |-> canonical_INITIAL, value |-> <<>>, count |-> 0, bytes |-> <<>>,
   parens |-> <<>>]

\* What one pass of the for loop leaves: the DFA, the tokens yielded, the
\* exception raised.
CanonicalPass(d, yield, raise) == [d |-> d, yield |-> yield, raise |-> raise]

\* The SYMBOL block that ends the atom before a closing bracket.
canonical_tokenize_symbol_delimited(d, c, n) ==
  IF d.state = canonical_SYMBOL
  THEN IF c \in canonical_parenclose
       THEN CanonicalPass([d EXCEPT !.state = canonical_INITIAL, !.count = 0],
                          <<d.bytes, c>>, "")
       ELSE LET bytes == d.bytes \o c
                count == d.count - 1
            IN IF count = 0
               THEN CanonicalPass([d EXCEPT !.bytes = bytes, !.count = count,
                                            !.state = canonical_INITIAL], <<bytes>>, "")
               ELSE CanonicalPass([d EXCEPT !.bytes = bytes, !.count = count], <<>>, "")
  ELSE CanonicalPass(d, <<>>, "")

\* if state == SYMBOL
canonical_tokenize_symbol(d, c, n) ==
  IF d.state = canonical_SYMBOL
  THEN LET bytes == d.bytes \o c
           count == d.count - 1
       IN IF count = 0
          THEN CanonicalPass([d EXCEPT !.bytes = bytes, !.count = count,
                                       !.state = canonical_INITIAL], <<bytes>>, "")
          ELSE CanonicalPass([d EXCEPT !.bytes = bytes, !.count = count], <<>>, "")
  ELSE CanonicalPass(d, <<>>, "")

\* if state == SEPARATOR
canonical_tokenize_separator(d, c, n) ==
  IF d.state = canonical_SEPARATOR
  THEN IF c # utf8(<<":">>)
       THEN CanonicalPass(d, <<>>, "SyntaxError")
       ELSE CanonicalPass([d EXCEPT !.state = canonical_SYMBOL, !.bytes = <<>>], <<>>, "")
  ELSE canonical_tokenize_symbol(d, c, n)

\* if state == LENGTH
canonical_tokenize_length(d, c, n) ==
  IF d.state = canonical_LENGTH
  THEN IF n # None /\ n[1] \in DigitOctets
       THEN CanonicalPass([d EXCEPT !.value = d.value \o n], <<>>, "")
       ELSE CanonicalPass([d EXCEPT !.state = canonical_SEPARATOR,
                                    !.count = canonical_int(d.value)], <<>>, "")
  ELSE canonical_tokenize_separator(d, c, n)

\* if state == INITIAL
canonical_tokenize_initial(d, c, n) ==
  IF d.state # canonical_INITIAL THEN canonical_tokenize_length(d, c, n)
  ELSE IF c \in canonical_association_operator
  THEN CanonicalPass(d, <<utf8(<<canonical_ASSOCIATION_OPERATOR>>)>>, "")
  ELSE IF c \in canonical_quote_operator
  THEN CanonicalPass(d, <<utf8(<<canonical_QUOTE_OPERATOR>>)>>, "")
  ELSE IF c \in canonical_unquote_operator
  THEN CanonicalPass(d, <<utf8(<<canonical_UNQUOTE_OPERATOR>>)>>, "")
  ELSE IF c \in canonical_unquote_splice_operator
  THEN CanonicalPass(d, <<utf8(<<canonical_UNQUOTE_SPLICE_OPERATOR>>)>>, "")
  ELSE IF c \in canonical_parenopen
  THEN CanonicalPass([d EXCEPT !.parens = Append(d.parens, c)], <<c>>, "")
  ELSE IF c \in canonical_parenclose
  THEN IF d.parens = <<>> THEN CanonicalPass(d, <<>>, "SyntaxError")
       ELSE IF Last(d.parens) # canonical_parenmap[c]
       THEN CanonicalPass(d, <<>>, "SyntaxError")
       ELSE CanonicalPass([d EXCEPT !.parens = Front(d.parens)], <<c>>, "")
  ELSE IF c[1] \in NonZeroDigitOctets
  THEN canonical_tokenize_length(
         [d EXCEPT !.state = canonical_LENGTH, !.value = c], c, n)
  ELSE canonical_tokenize_length(d, c, n)

\* for c, n in lookahead(iterable), over octets: each a one-byte str
canonical_lookahead(iterable, i) ==
  <<<<iterable[i]>>, IF i < Len(iterable) THEN <<iterable[i + 1]>> ELSE None>>

\* ------------------------------------------------------------------------
\* The state machine: one call of loads, optionally on the text of a dumps
\* ------------------------------------------------------------------------
VARIABLES
  arg,      \* the Value handed to dumps, NoValue when loads is given a text
  input,    \* the text loads tokenizes
  pos,      \* _tokenize: index of the next code point the for loop takes
  dfa,      \* _tokenize: state, value, count, initial, parens
  tokens,   \* the tokens _tokenize has yielded so far
  tstatus,  \* _tokenize: "idle", "run", "StopIteration" or the exception raised
  par,      \* _parse: key, count, tuple_, quotes, counts, tuples, parens
  pidx,     \* _parse: number of tokens the for loop has taken
  outcome,  \* loads: "" while running, "returned" or the exception raised
  result,   \* loads: the Tuple returned
  calls,    \* the calls made on a CanonicalExpressionPickler, in order
  ctok,     \* canonical _tokenize: input, pos, dfa, tokens, status
  other     \* a second call of loads on the same pickler: its local variables

vars == <<arg, input, pos, dfa, tokens, tstatus, par, pidx, outcome, result, calls, ctok,
          other>>

NoValue == [t |-> "none", v |-> 0]

\* loads(text) has been called and nothing has run yet.
LoadsCalled(text) ==
  /\ input = text
  /\ pos = 1
  /\ dfa = TokenizerInit
  /\ tokens = <<>>
  /\ tstatus = "run"
  /\ par = ParserInit
  /\ pidx = 0
  /\ outcome = ""
  /\ result = NoValue

\* The parser's lookahead wants the token after the one it is about to take.
TokenWanted == outcome = "" /\ tstatus = "run" /\ Len(tokens) < pidx + 2

\* One pass of _tokenize's for loop.
TokenizeStep ==
  /\ TokenWanted
  /\ pos <= Len(input)
  /\ LET la == lookahead(input, pos)
         r == tokenize_initial(dfa, la[1], la[2])
     IN /\ dfa' = r.d
        /\ tokens' = tokens \o r.yield
        /\ tstatus' = IF r.raise = "" THEN "run" ELSE r.raise
        /\ outcome' = r.raise
  /\ pos' = pos + 1
  /\ UNCHANGED <<arg, input, par, pidx, result, calls, ctok, other>>

\* _tokenize after its for loop.
TokenizeEnd ==
  /\ TokenWanted
  /\ pos = Len(input) + 1
  /\ tstatus' = tokenize_eof(dfa)
  /\ outcome' = IF tokenize_eof(dfa) = "StopIteration" THEN "" ELSE tokenize_eof(dfa)
  /\ UNCHANGED <<arg, input, pos, dfa, tokens, par, pidx, result, calls, ctok, other>>

\* One pass of _parse's for loop.
ParseStep ==
  /\ outcome = ""
  /\ pidx < Len(tokens)
  /\ Len(tokens) >= pidx + 2 \/ tstatus = "StopIteration"
  /\ LET c == tokens[pidx + 1]
         n == IF pidx + 2 <= Len(tokens) THEN tokens[pidx + 2] ELSE NoToken
         r == parse_iter(par, c, n)
     IN /\ par' = r.p
        /\ outcome' = r.raise
  /\ pidx' = pidx + 1
  /\ UNCHANGED <<arg, input, pos, dfa, tokens, tstatus, result, calls, ctok, other>>

\* return tuple_
ParseReturn ==
  /\ outcome = ""
  /\ tstatus = "StopIteration"
  /\ pidx = Len(tokens)
  /\ result' = Tuple(par.tuple_)
  /\ outcome' = "returned"
  /\ UNCHANGED <<arg, input, pos, dfa, tokens, tstatus, par, pidx, calls, ctok, other>>

\* The local variables of one call of loads(text): those of its _tokenize and
\* of its _parse generator, and what the call ends with.
Frame(text) ==
  [input |-> text, pos |-> 1, dfa |-> TokenizerInit, tokens |-> <<>>, tstatus |-> "run",
   par |-> ParserInit, pidx |-> 0, outcome |-> "", result |-> NoValue]
\* No second call has been made.
NoFrame == [Frame(<<>>) EXCEPT !.tstatus = "idle"]

\* One pass of _tokenize's for loop in the call f.
tokenize_pass(f) ==
  LET la == lookahead(f.input, f.pos)
      r == tokenize_initial(f.dfa, la[1], la[2])
  IN [f EXCEPT !.dfa = r.d,
               !.tokens = f.tokens \o r.yield,
               !.tstatus = IF r.raise = "" THEN "run" ELSE r.raise,
               !.outcome = r.raise,
               !.pos = f.pos + 1]

\* _tokenize after its for loop in the call f.
tokenize_end(f) ==
  [f EXCEPT !.tstatus = tokenize_eof(f.dfa),
            !.outcome = IF tokenize_eof(f.dfa) = "StopIteration" THEN ""
                        ELSE tokenize_eof(f.dfa)]

\* One pass of _parse's for loop in the call f.
parse_pass(f) ==
  LET c == f.tokens[f.pidx + 1]
      n == IF f.pidx + 2 <= Len(f.tokens) THEN f.tokens[f.pidx + 2] ELSE NoToken
      r == parse_iter(f.par, c, n)
  IN [f EXCEPT !.par = r.p, !.outcome = r.raise, !.pidx = f.pidx + 1]

\* return tuple_ in the call f.
parse_return(f) == [f EXCEPT !.result = Tuple(f.par.tuple_), !.outcome = "returned"]

\* The next step of the call f: _parse pulls a token from _tokenize when its
\* lookahead wants one, and takes a token otherwise.
loads_step(f) ==
  IF f.tstatus = "run" /\ Len(f.tokens) < f.pidx + 2
  THEN IF f.pos <= Len(f.input) THEN tokenize_pass(f) ELSE tokenize_end(f)
  ELSE IF f.pidx < Len(f.tokens) THEN parse_pass(f) ELSE parse_return(f)

\* The call f run to its end with nothing else running.
RECURSIVE run_alone(_)
run_alone(f) == IF f.outcome # "" THEN f ELSE run_alone(loads_step(f))

\* A step of the second call whose _tokenize keeps its DFA variables on the
\* pickler, where the first call keeps its own.
OtherStepOnInstance ==
  /\ other.tstatus # "idle"
  /\ other.outcome = ""
  /\ other' = loads_step([other EXCEPT !.dfa = dfa])
  /\ UNCHANGED <<arg, input, pos, dfa, tokens, tstatus, par, pidx, outcome, result, calls, ctok>>

\* One step of the second call of loads.
OtherStep ==
  /\ other.tstatus # "idle"
  /\ other.outcome = ""
  /\ other' = loads_step(other)
  /\ UNCHANGED <<arg, input, pos, dfa, tokens, tstatus, par, pidx, outcome, result, calls, ctok>>

\* loads(dumps(arg)): dumps runs to its end, then loads is called on its text.
SimpleDumps ==
  /\ tstatus = "idle"
  /\ LET text == simple_dumps(<<arg>>)
     IN /\ input' = IF Raised(text) = "" THEN text ELSE <<>>
        /\ tstatus' = IF Raised(text) = "" THEN "run" ELSE "idle"
        /\ outcome' = Raised(text)
  /\ UNCHANGED <<arg, pos, dfa, tokens, par, pidx, result, calls, ctok, other>>

\* an object that is no Value
Unrecognized == [t |-> "object", v |-> 0]
\* Values no codec writes, alone and inside containers
UnserializableValues ==
  {Relation, Matrix, Procedure, Unrecognized,
   Tuple(Positional(<<Bytes(<<"a">>), Relation>>)), Tuple(Bytes(<<"k">>) :> Procedure),
   Set({Matrix}), Sequence(<<Procedure>>),
   Sequence(<<Tuple(Positional(<<Set({Relation})>>))>>)}

\* The Values handed to canonical dumps.
CanonicalValues ==
  {Omega, Boolean(TRUE), Boolean(FALSE), Fraction(1, 2)}
    \cup {Integer(i) : i \in {-129, -1, 0, 1, 97, 128}}
    \cup {Unicode(<<>>), Unicode(<<"a">>)}
    \cup {Bytes(<<>>), Bytes(<<"a">>), Bytes(<<"b">>), Bytes(<<"a", "a">>),
          Symbol("true"), Symbol("integer"), Symbol("string"), Symbol("set"),
          Symbol("quote")}
    \cup {Tuple(EmptyMap), Tuple(Positional(<<Symbol("true")>>)),
          Tuple(Positional(<<Symbol("integer"), Bytes(<<"a">>)>>)),
          Tuple(Positional(<<Symbol("string"), Bytes(<<"a">>)>>)),
          Tuple(Positional(<<Symbol("set"), Bytes(<<"a">>)>>)),
          Tuple(Positional(<<Symbol("quote"), Bytes(<<"a">>)>>)),
          Tuple(Bytes(<<"b">>) :> Integer(1) @@ Bytes(<<"a", "a">>) :> Integer(2)),
          Tuple(Integer(0) :> Bytes(<<"a">>) @@ Bytes(<<"k">>) :> Omega)}
    \cup {Set({}), Set({Bytes(<<"a">>)}), Set({Bytes(<<"b">>), Bytes(<<"a", "a">>)})}
    \cup {Sequence(<<>>), Sequence(<<Bytes(<<"a">>)>>)}
    \cup UnserializableValues
    \cup {Pair(Symbol("unquote"), Bytes(<<"a">>)),
          Pair(Symbol("unquote-splice"), Bytes(<<"a">>)),
          Pair(Symbol("quote"), Pair(Symbol("unquote"), Bytes(<<"a">>))),
          Tuple(Integer(0) :> Symbol("quote") @@ Integer(1) :> Bytes(<<"a">>)
                  @@ Bytes(<<"k">>) :> Omega)}

Call(op, a, ret, raise) == [op |-> op, arg |-> a, ret |-> ret, raise |-> raise]

\* dumps(v) on the canonical pickler
CanonicalDumps ==
  /\ Len(calls) < MaxCalls
  /\ \E v \in CanonicalValues :
       LET octets == canonical_dumps(<<v>>)
       IN calls' = Append(calls,
            IF canonical_Raised(octets) = "" THEN Call("dumps", v, octets, "")
            ELSE Call("dumps", v, <<>>, canonical_Raised(octets)))
  /\ UNCHANGED <<arg, input, pos, dfa, tokens, tstatus, par, pidx, outcome, result, ctok, other>>

\* load(istream) on the octets the last dumps returned
CanonicalLoad ==
  /\ Len(calls) < MaxCalls /\ calls # <<>>
  /\ Last(calls).op = "dumps" /\ Last(calls).raise = ""
  /\ calls' = Append(calls, Call("load", Last(calls).ret, canonical_load(Last(calls).ret), ""))
  /\ UNCHANGED <<arg, input, pos, dfa, tokens, tstatus, par, pidx, outcome, result, ctok, other>>

\* loads(octets) on the octets the last dumps returned: the canonical pickler
\* defines none, BasePickler.loads passes the call on to object
CanonicalLoads ==
  /\ Len(calls) < MaxCalls /\ calls # <<>>
  /\ Last(calls).op = "dumps" /\ Last(calls).raise = ""
  /\ calls' = Append(calls, Call("loads", Last(calls).ret, NoValue, AttributeError))
  /\ UNCHANGED <<arg, input, pos, dfa, tokens, tstatus, par, pidx, outcome, result, ctok, other>>

\* dumps(arg) on the canonical pickler
CanonicalDumpsArg ==
  /\ Len(calls) < MaxCalls
  /\ LET octets == canonical_dumps(<<arg>>)
     IN calls' = Append(calls,
          IF canonical_Raised(octets) = "" THEN Call("dumps", arg, octets, "")
          ELSE Call("dumps", arg, <<>>, canonical_Raised(octets)))
  /\ UNCHANGED <<arg, input, pos, dfa, tokens, tstatus, par, pidx, outcome, result, ctok, other>>

\* A Set or Tuple together with the order in which iterating over it gives
\* its elements or keys, which is up to how the container was built.
Built(v, order) == [t |-> v.t, v |-> v.v, order |-> order]
BuiltValues ==
  {Built(Set(S), order) :
     S \in {{Bytes(<<"b">>), Bytes(<<"a", "a">>)}, {Omega, Integer(1), Bytes(<<"a">>)}},
     order \in UNION {[1 .. n -> {Omega, Integer(1), Bytes(<<"a">>), Bytes(<<"b">>),
                                  Bytes(<<"a", "a">>)}] : n \in 2 .. 3}}
  \cup {Built(Tuple(f), order) :
          f \in {Bytes(<<"b">>) :> Integer(1) @@ Bytes(<<"a", "a">>) :> Integer(2),
                 Integer(0) :> Omega @@ Integer(2) :> Omega @@ Bytes(<<"k">>) :> Omega},
          order \in UNION {[1 .. n -> {Integer(0), Integer(2), Bytes(<<"k">>), Bytes(<<"b">>),
                                       Bytes(<<"a", "a">>)}] : n \in 2 .. 3}}

\* dumps(v) on the canonical pickler, v a container built in some order
CanonicalDumpsBuilt ==
  /\ Len(calls) < MaxCalls
  /\ \E b \in BuiltValues :
       /\ Len(b.order) = Cardinality(IF b.t = "set" THEN b.v ELSE DOMAIN b.v)
       /\ {b.order[i] : i \in 1 .. Len(b.order)} = (IF b.t = "set" THEN b.v ELSE DOMAIN b.v)
       /\ LET octets == canonical_dumps(<<b>>)
          IN calls' = Append(calls,
               IF canonical_Raised(octets) = "" THEN Call("dumps", b, octets, "")
               ELSE Call("dumps", b, <<>>, canonical_Raised(octets)))
  /\ UNCHANGED <<arg, input, pos, dfa, tokens, tstatus, par, pidx, outcome, result, ctok, other>>

\* No canonical _tokenize is running.
NoTokenizer ==
  [input |-> <<>>, pos |-> 1, dfa |-> CanonicalTokenizerInit, tokens |-> <<>>,
   status |-> "idle"]

CanonicalTokenizeCalled(octets) ==
  [input |-> octets, pos |-> 1, dfa |-> CanonicalTokenizerInit, tokens |-> <<>>,
   status |-> "run"]

\* One pass of the canonical _tokenize's for loop.
CanonicalTokenizeStep ==
  /\ ctok.status = "run"
  /\ ctok.pos <= Len(ctok.input)
  /\ LET la == canonical_lookahead(ctok.input, ctok.pos)
         r == canonical_tokenize_initial(ctok.dfa, la[1], la[2])
     IN ctok' = [ctok EXCEPT !.pos = ctok.pos + 1,
                             !.dfa = r.d,
                             !.tokens = ctok.tokens \o r.yield,
                             !.status = IF r.raise = "" THEN "run" ELSE r.raise]
  /\ UNCHANGED <<arg, input, pos, dfa, tokens, tstatus, par, pidx, outcome, result, calls, other>>

\* The canonical _tokenize after its for loop: raise StopIteration
CanonicalTokenizeEnd ==
  /\ ctok.status = "run"
  /\ ctok.pos = Len(ctok.input) + 1
  /\ ctok' = [ctok EXCEPT !.status = "StopIteration"]
  /\ UNCHANGED <<arg, input, pos, dfa, tokens, tstatus, par, pidx, outcome, result, calls, other>>

\* The octets handed to the canonical _tokenize.
OctetAlphabet == {Ord(c) : c \in {"0", "1", ":", "a", "[", "]", ")"}}

\* Octets that are syntax outside an atom.
FramingAlphabet == {Ord(c) : c \in {"[", "]", ")", "=", "'", ":", "1"}}
\* All texts over an alphabet up to a length.
RECURSIVE Texts(_, _)
Texts(alphabet, n) ==
  IF n = 0 THEN {<<>>}
  ELSE LET shorter == Texts(alphabet, n - 1)
       IN shorter \cup {Append(s, c) : s \in {x \in shorter : Len(x) = n - 1}, c \in alphabet}

TextAlphabet == {"a", "1", "+", " ", "[", "]", "(", ")", ":", "'", "#", ";", "\"", "\n"}
NestAlphabet == {"a", "[", "]", "(", ")", ":", "'"}
NumberAlphabet == {"1", "2", "/", "+", "-", " "}
StringAlphabet == {"\"", "\\", "a"}

QuoteAlphabet == {"a", "\"", "U+00AB", "U+00BB", "U+300C", "U+300D"}
ConstantAlphabet == {" ", ";", "\n", "t", "f", "1"}
\* the constant indicator, then a text over ConstantAlphabet or the name nil
\* after whitespace and comments
ConstantTexts ==
  {<<CONSTANT_INDICATOR>> \o body : body \in Texts(ConstantAlphabet, MaxConstant)}
    \cup {<<CONSTANT_INDICATOR>> \o filler \o <<"n", "i", "l">> :
            filler \in Texts({" ", ";", "\n"}, MaxConstant)}
PrefixAlphabet == {"'", ",", "U+0060", "a", " "}
FormAlphabet == {"a", "0", "1", ":", " "}
\* a sequence or eval-data form around a text of atoms and `:`
FormTexts ==
  {<<b[1]>> \o body \o <<b[2]>> :
     b \in {<<SEQUENCE_OPEN, SEQUENCE_CLOSE>>, <<EVAL_DATA_OPEN, EVAL_DATA_CLOSE>>},
     body \in Texts(FormAlphabet, MaxForm)}

\* The Values handed to dumps.
CommentAlphabet == {";", "\n", "[", "\"", "#", ":", "a"}
KeyLexemes == {<<"\"", "a", "\"">>, <<"a">>, <<":">>, <<"[">>, <<"]">>, <<"1">>}
KeyTexts == {Concat(s) : s \in UNION {[1 .. n -> KeyLexemes] : n \in 0 .. MaxKey}}
ConcurrentAlphabet == {"a", "[", "]", "'"}
AtomValues ==
  {Omega, Boolean(TRUE), Boolean(FALSE), Fraction(1, 2), Fraction(-1, 2)}
    \cup {Integer(i) : i \in {-12, -1, 0, 1, 12}}
    \cup {Unicode(s) : s \in Texts({"a", "\\", "\""}, MaxAtom)}
    \cup {Bytes(s) : s \in Texts({"a", "1", "-", " "}, MaxAtom)}
ElemValues ==
  {Omega, Boolean(TRUE), Integer(1), Unicode(<<"a">>), Bytes(<<"a">>),
   Tuple(EmptyMap), Tuple(Positional(<<Bytes(<<"a">>)>>)), Sequence(<<>>)}
KeyValues ==
  {Integer(0), Integer(1), Integer(2), Omega, Bytes(<<"k">>), Unicode(<<"k">>)}
HashableValues ==
  {Omega, Boolean(TRUE), Integer(1), Unicode(<<"a">>), Bytes(<<"a">>), Bytes(<<"b">>)}
Subsets(S, n) == {T \in SUBSET S : Cardinality(T) <= n}
TupleValues ==
  {Tuple(f) : f \in UNION {[K -> ElemValues] : K \in Subsets(KeyValues, MaxElems)}}
SetValues == {Set(S) : S \in Subsets(HashableValues, MaxElems)}
SequenceValues ==
  {Sequence(s) : s \in UNION {[1 .. n -> ElemValues] : n \in 0 .. MaxElems}}
\* {0: quote, 1: X}
QuoteValues == {Pair(Symbol("quote"), Bytes(<<"-">>)), Pair(Symbol("quote"), Tuple(EmptyMap))}
Values == AtomValues \cup TupleValues \cup SetValues \cup SequenceValues \cup QuoteValues

\* loads on a text of the given family
InitLoads(texts) ==
  /\ arg = NoValue
  /\ calls = <<>>
  /\ other = NoFrame
  /\ ctok = NoTokenizer
  /\ \E text \in texts : LoadsCalled(text)

Init == InitLoads(Texts(TextAlphabet, MaxLen))
InitNest == InitLoads(Texts(NestAlphabet, MaxNest))
InitForm == InitLoads(FormTexts)
InitQuote == InitLoads(Texts(QuoteAlphabet, MaxQuote))
InitConstant == InitLoads(ConstantTexts)
InitComment == InitLoads(Texts(CommentAlphabet, MaxComment))
InitKey == InitLoads(KeyTexts)
InitPrefix == InitLoads(Texts(PrefixAlphabet, MaxPrefix))
InitNumber == InitLoads(Texts(NumberAlphabet, MaxNumber))
InitString == InitLoads(Texts(StringAlphabet, MaxString))

\* loads has been called twice on one pickler and neither call has run yet.
InitConcurrent ==
  /\ arg = NoValue
  /\ calls = <<>>
  /\ ctok = NoTokenizer
  /\ \E text \in Texts(ConcurrentAlphabet, MaxConcurrent) : LoadsCalled(text)
  /\ \E text \in Texts(ConcurrentAlphabet, MaxConcurrent) : other = Frame(text)

\* loads(dumps(arg)), nothing has run yet.
InitRoundTrip ==
  /\ arg \in Values
  /\ input = <<>>
  /\ pos = 1
  /\ dfa = TokenizerInit
  /\ tokens = <<>>
  /\ tstatus = "idle"
  /\ par = ParserInit
  /\ pidx = 0
  /\ outcome = ""
  /\ result = NoValue
  /\ calls = <<>>
  /\ other = NoFrame
  /\ ctok = NoTokenizer

\* dumps(arg) is about to be called on a simple and on a canonical pickler.
InitDumps ==
  /\ arg \in Values \cup UnserializableValues
  /\ input = <<>>
  /\ pos = 1
  /\ dfa = TokenizerInit
  /\ tokens = <<>>
  /\ tstatus = "idle"
  /\ par = ParserInit
  /\ pidx = 0
  /\ outcome = ""
  /\ result = NoValue
  /\ calls = <<>>
  /\ other = NoFrame
  /\ ctok = NoTokenizer

\* A CanonicalExpressionPickler on which nothing has been called yet.
InitCanonical ==
  /\ arg = NoValue
  /\ input = <<>>
  /\ pos = 1
  /\ dfa = TokenizerInit
  /\ tokens = <<>>
  /\ tstatus = "idle"
  /\ par = ParserInit
  /\ pidx = 0
  /\ outcome = ""
  /\ result = NoValue
  /\ calls = <<>>
  /\ other = NoFrame
  /\ ctok = NoTokenizer

\* _tokenize(octets) has been called on the canonical pickler and nothing has
\* run yet.
InitCanonicalTokenize ==
  /\ arg = NoValue
  /\ input = <<>>
  /\ pos = 1
  /\ dfa = TokenizerInit
  /\ tokens = <<>>
  /\ tstatus = "idle"
  /\ par = ParserInit
  /\ pidx = 0
  /\ outcome = ""
  /\ result = NoValue
  /\ calls = <<>>
  /\ other = NoFrame
  /\ \E octets \in Texts(OctetAlphabet, MaxOctets) : ctok = CanonicalTokenizeCalled(octets)

Next == TokenizeStep \/ TokenizeEnd \/ ParseStep \/ ParseReturn
NextConcurrent == Next \/ OtherStep
NextRoundTrip == SimpleDumps \/ Next
NextDumps == SimpleDumps \/ CanonicalDumpsArg
NextBuilt == CanonicalDumpsBuilt
NextCanonical == CanonicalDumps \/ CanonicalLoad \/ CanonicalLoads
\* The canonical _tokenize has been called on an atom header at top level or
\* inside a bracket, followed by arbitrary octets.
FramingOctets ==
  {pre \o <<length, Ord(":")>> \o rest :
     pre \in {<<>>, <<Ord("[")>>},
     length \in {Ord("1"), Ord("2"), Ord("3")},
     rest \in Texts(FramingAlphabet, MaxFraming)}
InitFraming ==
  /\ arg = NoValue
  /\ calls = <<>>
  /\ input = <<>>
  /\ pos = 1
  /\ dfa = TokenizerInit
  /\ tokens = <<>>
  /\ tstatus = "idle"
  /\ par = ParserInit
  /\ pidx = 0
  /\ outcome = ""
  /\ result = NoValue
  /\ other = NoFrame
  /\ \E octets \in FramingOctets : ctok = CanonicalTokenizeCalled(octets)

NextCanonicalTokenize == CanonicalTokenizeStep \/ CanonicalTokenizeEnd

Spec == Init /\ [][Next]_vars
SpecConcurrent == InitConcurrent /\ [][NextConcurrent]_vars
SpecNest == InitNest /\ [][Next]_vars
SpecForm == InitForm /\ [][Next]_vars
SpecQuote == InitQuote /\ [][Next]_vars
SpecConstant == InitConstant /\ [][Next]_vars
SpecComment == InitComment /\ [][Next]_vars
SpecKey == InitKey /\ [][Next]_vars
SpecPrefix == InitPrefix /\ [][Next]_vars
SpecNumber == InitNumber /\ [][Next]_vars
SpecString == InitString /\ [][Next]_vars
SpecRoundTrip == InitRoundTrip /\ [][NextRoundTrip]_vars
SpecDumps == InitDumps /\ [][NextDumps]_vars
SpecBuilt == InitCanonical /\ [][NextBuilt]_vars
SpecCanonical == InitCanonical /\ [][NextCanonical]_vars
SpecFraming == InitFraming /\ [][NextCanonicalTokenize]_vars
SpecCanonicalTokenize == InitCanonicalTokenize /\ [][NextCanonicalTokenize]_vars

\* ------------------------------------------------------------------------
\* Properties of the simple codec
\* ------------------------------------------------------------------------
IsSyntax(tok, cs) == tok.tt = TOKEN_SYNTAX /\ tok.tv \in cs
IsLiteral(tok) == tok.tt = TOKEN_LITERAL
QuoteOperators == {QUOTE_OPERATOR, UNQUOTE_OPERATOR, UNQUOTE_SPLICE_OPERATOR}
\* the token after the last one _parse has taken
NextToken == IF Len(tokens) > pidx THEN tokens[pidx + 1] ELSE NoToken
\* _parse has taken its tokens so far without raising
Parsing == outcome \in {"", "returned"}
TokenizerFinished == tstatus \notin {"idle", "run"}

\* The opening brackets left unclosed by a token sequence, innermost last;
\* <<"unbalanced">> if a closing token does not match the innermost opening.
RECURSIVE Unclosed(_)
Unclosed(toks) ==
  IF toks = <<>> THEN <<>>
  ELSE LET before == Unclosed(Front(toks))
           tok == Last(toks)
       IN IF before = <<"unbalanced">> THEN before
          ELSE IF IsSyntax(tok, parenopen) THEN Append(before, tok.tv)
          ELSE IF IsSyntax(tok, parenclose)
          THEN IF before # <<>> /\ Last(before) \in parenmap[tok.tv]
               THEN Front(before) ELSE <<"unbalanced">>
          ELSE before

\* C4: whenever _tokenize ends, either it raised TokenError or the bracket
\* tokens it yielded are properly nested, every closing token matching the
\* innermost unclosed opening token and no opening token left unclosed.
C4_BracketBalance ==
  TokenizerFinished => (tstatus = "TokenError" \/ Unclosed(tokens) = <<>>)

\* C5: once _parse has taken `key : [ x` (x a literal that is no key itself),
\* the new container is {0: x} and the key is still pending; and once it has
\* taken `key : [ x ]`, the enclosing container maps key to the Tuple {0: x}.
C5_PendingKeyAcrossNesting ==
  /\ ( /\ Parsing /\ pidx >= 4
       /\ IsLiteral(tokens[pidx - 3])
       /\ IsSyntax(tokens[pidx - 2], {ASSOCIATION_OPERATOR})
       /\ IsSyntax(tokens[pidx - 1], parenopen)
       /\ IsLiteral(tokens[pidx])
       /\ ~IsSyntax(NextToken, {ASSOCIATION_OPERATOR}) )
     => /\ par.tuple_ = Positional(<<tokens[pidx].tv>>)
        /\ par.key # SENTINEL
  /\ ( /\ Parsing /\ pidx >= 5
       /\ IsLiteral(tokens[pidx - 4])
       /\ pidx >= 6 => ~IsSyntax(tokens[pidx - 5], QuoteOperators \cup {ASSOCIATION_OPERATOR})
       /\ IsSyntax(tokens[pidx - 3], {ASSOCIATION_OPERATOR})
       /\ IsSyntax(tokens[pidx - 2], {TUPLE_OPEN})
       /\ IsLiteral(tokens[pidx - 1])
       /\ IsSyntax(tokens[pidx], {TUPLE_CLOSE}) )
     => /\ tokens[pidx - 4].tv \in DOMAIN par.tuple_
        /\ par.tuple_[tokens[pidx - 4].tv] = Tuple(Positional(<<tokens[pidx - 1].tv>>))

\* C6: once _parse has taken `' [ x` (x a literal that is no key), x is in
\* the new container unwrapped and the quote is still pending; and once it
\* has taken `' [ x ]` as a positional entry, that entry is
\* {0: quote, 1: {0: x}}.
C6_QuoteWrapsWholeForm ==
  /\ ( /\ Parsing /\ pidx >= 3
       /\ IsSyntax(tokens[pidx - 2], QuoteOperators)
       /\ IsSyntax(tokens[pidx - 1], parenopen)
       /\ IsLiteral(tokens[pidx])
       /\ ~IsSyntax(NextToken, {ASSOCIATION_OPERATOR}) )
     => /\ par.tuple_ = Positional(<<tokens[pidx].tv>>)
        /\ par.quotes # <<>>
  /\ ( /\ Parsing /\ pidx >= 4
       /\ pidx >= 5 => ~IsSyntax(tokens[pidx - 4], QuoteOperators \cup {ASSOCIATION_OPERATOR})
       /\ IsSyntax(tokens[pidx - 3], QuoteOperators)
       /\ IsSyntax(tokens[pidx - 2], {TUPLE_OPEN})
       /\ IsLiteral(tokens[pidx - 1])
       /\ IsSyntax(tokens[pidx], {TUPLE_CLOSE})
       /\ ~IsSyntax(NextToken, {ASSOCIATION_OPERATOR}) )
     => /\ Integer(par.count - 1) \in DOMAIN par.tuple_
        /\ par.tuple_[Integer(par.count - 1)] =
             Pair(quotedmap[tokens[pidx - 3].tv],
                  Tuple(Positional(<<tokens[pidx - 1].tv>>)))

IsDigits(s) == s # <<>> /\ \A i \in 1 .. Len(s) : s[i] \in Digits
IsSignedDigits(s) ==
  IsDigits(s) \/ (Len(s) >= 2 /\ s[1] \in {"+", "-"} /\ IsDigits(Tail(s)))

\* C7: a text N/D (decimal digits, optional sign on N, no whitespace) loads
\* as the single entry Rational N/D; the text `N / D` loads as the three
\* entries Integer N, Bytes "/", Integer D.
C7_RationalLiteral ==
  outcome # "" =>
    \A k \in 2 .. Len(input) - 1 :
      /\ ( /\ input[k] = "/"
           /\ IsSignedDigits(SubSeq(input, 1, k - 1))
           /\ IsDigits(SubSeq(input, k + 1, Len(input))) )
         => /\ outcome = "returned"
            /\ DOMAIN result.v = {Integer(0)}
            /\ result.v[Integer(0)].t = "frac"
            /\ result.v[Integer(0)].v[1] * DecimalOf(SubSeq(input, k + 1, Len(input)))
                 = result.v[Integer(0)].v[2] * IntegerOf(SubSeq(input, 1, k - 1))
      /\ ( /\ input[k] = "/" /\ k >= 3 /\ k <= Len(input) - 2
           /\ input[k - 1] = " " /\ input[k + 1] = " "
           /\ IsSignedDigits(SubSeq(input, 1, k - 2))
           /\ IsDigits(SubSeq(input, k + 2, Len(input))) )
         => /\ outcome = "returned"
            /\ result = Tuple(Positional(
                 <<Integer(IntegerOf(SubSeq(input, 1, k - 2))), Bytes(<<"/">>),
                   Integer(DecimalOf(SubSeq(input, k + 2, Len(input))))>>))

\* The body of a string in which every backslash begins `\"` or `\\` and no
\* quote stands unescaped, and what it denotes.
RECURSIVE WellEscaped(_)
WellEscaped(body) ==
  IF body = <<>> THEN TRUE
  ELSE IF Head(body) = "\\"
  THEN Len(body) >= 2 /\ body[2] \in {"\\", "\""} /\ WellEscaped(SubSeq(body, 3, Len(body)))
  ELSE Head(body) # "\"" /\ WellEscaped(Tail(body))
RECURSIVE Unescaped(_)
Unescaped(body) ==
  IF body = <<>> THEN <<>>
  ELSE IF Head(body) = "\\"
  THEN <<body[2]>> \o Unescaped(SubSeq(body, 3, Len(body)))
  ELSE <<Head(body)>> \o Unescaped(Tail(body))

\* C8: a text that is one "-delimited string whose body is built of the
\* escapes `\"` and `\\` and ordinary characters loads as the single Unicode
\* entry in which every `\"` is a quote and every `\\` a backslash.
C8_StringEscapes ==
  ( /\ outcome # "" /\ Len(input) >= 2
    /\ Head(input) = "\"" /\ Last(input) = "\""
    /\ WellEscaped(SubSeq(input, 2, Len(input) - 1)) )
  => /\ outcome = "returned"
     /\ result = Tuple(Positional(<<Unicode(Unescaped(SubSeq(input, 2, Len(input) - 1)))>>))

RECURSIVE Escaped(_)
Escaped(text) ==
  IF text = <<>> THEN <<>>
  ELSE (IF Head(text) \in {"\"", "\\"} THEN <<"\\", Head(text)>> ELSE <<Head(text)>>)
         \o Escaped(Tail(text))

\* C9: dumps of a Unicode value is the value between double quotes with
\* every quote written `\"` and every backslash written `\\`.
C9_UnicodeSerialization ==
  (arg.t = "unicode" /\ tstatus # "idle")
  => input = <<"\"">> \o Escaped(arg.v) \o <<"\"">>

\* C10: when the input ends inside a string literal, _tokenize raises
\* TokenError and loads returns no Value.
C10_EofInString ==
  (TokenizerFinished /\ dfa.state = UNICODE)
  => (tstatus = "TokenError" /\ outcome = "TokenError" /\ result = NoValue)

\* C1: loads(dumps(v)) returns the Tuple {0: v}.
C1_SimpleRoundTrip ==
  (arg # NoValue /\ outcome # "")
  => (outcome = "returned" /\ result = Tuple(Positional(<<arg>>)))

\* ------------------------------------------------------------------------
\* Properties of the canonical codec
\* ------------------------------------------------------------------------
\* C2: load or loads on the octets dumps(v) returned gives back v.
C2_CanonicalRoundTrip ==
  \A i \in 2 .. Len(calls) :
    calls[i].op \in {"load", "loads"}
    => (calls[i].raise = "" /\ calls[i].ret = calls[i - 1].arg)

\* C3: two dumps calls on Values that are not equal never return the same
\* octets.
C3_CanonicalInjective ==
  \A i, j \in 1 .. Len(calls) :
    ( /\ calls[i].op = "dumps" /\ calls[j].op = "dumps"
      /\ calls[i].raise = "" /\ calls[j].raise = ""
      /\ calls[i].arg # calls[j].arg )
    => calls[i].ret # calls[j].ret

\* Lexicographic order of two octet strings.
RECURSIVE octets_less(_, _)
octets_less(a, b) ==
  IF b = <<>> THEN FALSE
  ELSE IF a = <<>> THEN TRUE
  ELSE IF Head(a) # Head(b) THEN Head(a) < Head(b)
  ELSE octets_less(Tail(a), Tail(b))

\* The canonical encodings of a set of Values, in ascending order.
RECURSIVE AscendingEncodings(_)
AscendingEncodings(S) ==
  IF S = {} THEN <<>>
  ELSE LET m == CHOOSE x \in S :
                  \A y \in S \ {x} : octets_less(canonical_serialize(x), canonical_serialize(y))
       IN <<m>> \o AscendingEncodings(S \ {m})

\* C11: in the octets dumps returns for a Set the elements, and for a Tuple
\* the named keys, stand in ascending lexicographic order of their own
\* canonical encodings.
C11_CanonicalOrdering ==
  \A i \in 1 .. Len(calls) :
    (calls[i].op = "dumps" /\ calls[i].raise = "")
    => LET v == calls[i].arg
       IN /\ v.t = "set" =>
               LET elems == AscendingEncodings(v.v)
               IN calls[i].ret =
                    utf8(<<"[">>) \o s2varstring(utf8(Chars("set"))) \o
                    Concat([j \in 1 .. Len(elems) |-> canonical_serialize(elems[j])]) \o
                    utf8(<<"]">>)
          /\ (v.t = "tuple" /\ named_keys(v.v) # {}) =>
               LET keys == AscendingEncodings(named_keys(v.v))
                   args == positional_args(v.v)
               IN calls[i].ret =
                    utf8(<<"[">>) \o
                    Concat([j \in 1 .. Len(args) |-> canonical_serialize(args[j])]) \o
                    Concat([j \in 1 .. Len(keys) |->
                              utf8(<<"=">>) \o canonical_serialize(keys[j]) \o
                              canonical_serialize(v.v[keys[j]])]) \o
                    utf8(<<"]">>)

CanonicalTokenizerFinished == ctok.status \notin {"idle", "run"}

\* C12: an input that begins `0:` has yielded exactly one token, the empty
\* atom, once those two octets are read; on an input that begins with `0`
\* and a further digit the canonical _tokenize ends with an error.
C12_LeadingZero ==
  /\ ( /\ Len(ctok.input) >= 2
       /\ ctok.input[1] = Ord("0") /\ ctok.input[2] = Ord(":")
       /\ ctok.pos = 3 )
     => ctok.tokens = << <<>> >>
  /\ ( /\ Len(ctok.input) >= 2
       /\ ctok.input[1] = Ord("0") /\ ctok.input[2] \in DigitOctets
       /\ CanonicalTokenizerFinished )
     => ctok.status = "SyntaxError"

\* C13: when the canonical _tokenize ends, either it raised SyntaxError or
\* every bracket it yielded has been closed and no atom is partially read.
C13_CanonicalTermination ==
  CanonicalTokenizerFinished
  => \/ ctok.status = "SyntaxError"
     \/ (ctok.dfa.parens = <<>> /\ ctok.dfa.state = canonical_INITIAL)

\* The top-level expressions of a token sequence, in input order: each is a
\* literal or a bracketed group with the quote operators in front of it.
RECURSIVE TopLevelExpressions(_, _)
TopLevelExpressions(toks, cur) ==
  IF toks = <<>> THEN <<>>
  ELSE LET grown == Append(cur, Head(toks))
       IN IF Unclosed(grown) = <<>> /\ ~IsSyntax(Head(toks), QuoteOperators)
          THEN <<grown>> \o TopLevelExpressions(Tail(toks), <<>>)
          ELSE TopLevelExpressions(Tail(toks), grown)

\* some `:` of the token sequence stands outside every bracket
HasTopLevelKey(toks) ==
  \E i \in 1 .. Len(toks) :
    IsSyntax(toks[i], {ASSOCIATION_OPERATOR}) /\ Unclosed(SubSeq(toks, 1, i - 1)) = <<>>

\* _parse run on a token sequence of its own
RECURSIVE ParseAlone(_, _)
ParseAlone(p, toks) ==
  IF toks = <<>> THEN p
  ELSE ParseAlone(parse_iter(p, toks[1], IF Len(toks) > 1 THEN toks[2] ELSE NoToken).p,
                  Tail(toks))

\* C14: when loads returns for a text made of n top-level expressions, none
\* of them under a top-level key, the result's keys are exactly the Integers
\* 0..n-1 and key i holds what the i-th expression parses to on its own.
C14_TopLevelOrdering ==
  ( /\ outcome = "returned"
    /\ Unclosed(tokens) = <<>>
    /\ ~HasTopLevelKey(tokens) )
  => LET exprs == TopLevelExpressions(tokens, <<>>)
     IN /\ DOMAIN result.v = {Integer(i - 1) : i \in 1 .. Len(exprs)}
        /\ \A i \in 1 .. Len(exprs) :
             result.v[Integer(i - 1)] = ParseAlone(ParserInit, exprs[i]).tuple_[Integer(0)]

\* three top-level expressions, the middle one a bracketed group
C14_Witness ==
  /\ outcome = "returned"
  /\ Unclosed(tokens) = <<>>
  /\ ~HasTopLevelKey(tokens)
  /\ Len(TopLevelExpressions(tokens, <<>>)) = 3
  /\ IsSyntax(tokens[2], parenopen)
  /\ result.v[Integer(1)].t \in {"tuple", "seq"}

\* What the pass of _parse just made has been stored as: the pending key, or
\* the newest positional entry of the current container.
Inserted ==
  IF par'.key # SENTINEL THEN par'.key ELSE par'.tuple_[Integer(par'.count - 1)]

\* _parse takes the closing token cv, which closes the innermost container
ClosingStep(cv) ==
  /\ ParseStep
  /\ IsSyntax(tokens[pidx + 1], {cv})
  /\ par.key = SENTINEL
  /\ par.parens # <<>> /\ Last(par.parens) = cv

\* C15: when _parse takes a `)` that closes a container whose keys are
\* exactly the Integers 0..n-1, it makes the Sequence of the n values in key
\* order; with any other key set it raises SyntaxError and stores nothing.
C15_SequenceKeys ==
  [][ ClosingStep(SEQUENCE_CLOSE)
      => LET n == Cardinality(DOMAIN par.tuple_)
         IN IF \A k \in DOMAIN par.tuple_ : k.t = "int" /\ k.v \in 0 .. n - 1
            THEN /\ outcome' = ""
                 /\ Inserted = wrap_quotes(par.quotes,
                                  Sequence([i \in 1 .. n |-> par.tuple_[Integer(i - 1)]]))
            ELSE /\ outcome' = "SyntaxError"
                 /\ par'.tuple_ = par.tuple_ /\ par'.key = SENTINEL
                 /\ result' = NoValue ]_vars

\* `(1:0 a)`: the values come out in key order, not in input order
C15_Witness ==
  /\ outcome = "returned"
  /\ IsSyntax(tokens[1], {SEQUENCE_OPEN})
  /\ tokens[2] = [tt |-> TOKEN_LITERAL, tv |-> Integer(1)]
  /\ result = Tuple(Positional(<<Sequence(<<Bytes(<<"a">>), Integer(0)>>)>>))

\* C16: when _parse takes a `}` that closes the container T, it makes the
\* two-entry Tuple {0: quote, 1: T'} where T' has the keys of T and maps each
\* key k to {0: unquote, 1: T[k]}; for `{}` that is {0: quote, 1: {}}.
C16_EvalData ==
  [][ ClosingStep(EVAL_DATA_CLOSE)
      => LET T == par.tuple_
             unquoted == [k \in DOMAIN T |->
                            Tuple((Integer(0) :> Symbol("unquote")) @@ (Integer(1) :> T[k]))]
             made == Tuple((Integer(0) :> Symbol("quote")) @@ (Integer(1) :> Tuple(unquoted)))
         IN /\ outcome' = ""
            /\ Inserted = wrap_quotes(par.quotes, made)
            /\ (T = EmptyMap) =>
                 Inserted = wrap_quotes(par.quotes,
                   Tuple((Integer(0) :> Symbol("quote")) @@ (Integer(1) :> Tuple(EmptyMap)))) ]_vars

\* `{a:0 1}` has been read: a named and a positional entry, both unquoted
C16_Witness ==
  /\ outcome = "returned"
  /\ IsSyntax(tokens[1], {EVAL_DATA_OPEN})
  /\ result.v[Integer(0)].v[Integer(1)] =
       Tuple((Bytes(<<"a">>) :> Pair(Symbol("unquote"), Integer(0))) @@
             (Integer(0) :> Pair(Symbol("unquote"), Integer(1))))

\* the token _parse took last is a `:` that no key stands in front of: it is
\* the first token, or the token before it is an opening bracket, a quote
\* operator or another `:`
DetachedAssociation ==
  /\ pidx >= 1
  /\ IsSyntax(tokens[pidx], {ASSOCIATION_OPERATOR})
  /\ \/ pidx = 1
     \/ IsSyntax(tokens[pidx - 1], parenopen \cup QuoteOperators \cup {ASSOCIATION_OPERATOR})

\* C17: whenever _parse has taken a detached `:`, it has raised SyntaxError.
C17_DetachedAssociation ==
  DetachedAssociation => outcome = "SyntaxError"

\* dumps(arg) has run and loads has its text
Dumped == tstatus # "idle" /\ calls = <<>> /\ arg # NoValue

\* the keys of S in ascending order
Ascending(S) ==
  [i \in 1 .. Cardinality(S) |->
     CHOOSE k \in S : Cardinality({j \in S : value_less(j, k)}) = i - 1]

\* the length of the longest run of keys 0, 1, ... that f has
ContiguousRun(f) ==
  CHOOSE k \in 0 .. Cardinality(DOMAIN f) :
    /\ {Integer(i) : i \in 0 .. k - 1} \subseteq DOMAIN f
    /\ \A m \in k + 1 .. Cardinality(DOMAIN f) :
         ~({Integer(i) : i \in 0 .. m - 1} \subseteq DOMAIN f)

\* texts with one space between each two of them
RECURSIVE Spaced(_)
Spaced(texts) ==
  IF texts = <<>> THEN <<>>
  ELSE IF Len(texts) = 1 THEN texts[1]
  ELSE texts[1] \o <<" ">> \o Spaced(Tail(texts))

\* C18: the text dumps makes of a Tuple is `[`, the values of the keys
\* 0..k-1 of its longest contiguous run with single spaces between, one
\* space if both parts are non-empty, every other entry as key:value in
\* ascending key order with single spaces between, and `]`.
C18_TupleSerialization ==
  (Dumped /\ arg.t = "tuple")
  => LET f == arg.v
         k == ContiguousRun(f)
         rest == Ascending(DOMAIN f \ {Integer(i) : i \in 0 .. k - 1})
         positional == Spaced([i \in 1 .. k |-> simple_dumps(<<f[Integer(i - 1)]>>)])
         named == Spaced([i \in 1 .. Len(rest) |->
                    simple_dumps(<<rest[i]>>) \o <<":">> \o simple_dumps(<<f[rest[i]]>>)])
     IN input = <<"[">> \o positional
                  \o (IF k > 0 /\ Len(rest) > 0 THEN <<" ">> ELSE <<>>)
                  \o named \o <<"]">>

\* a Tuple with the keys 0 and 2 has been dumped: 2 is outside the run
C18_Witness ==
  /\ Dumped
  /\ arg.t = "tuple"
  /\ DOMAIN arg.v = {Integer(0), Integer(2)}
  /\ arg.v[Integer(0)] = Integer(1) /\ arg.v[Integer(2)] = Omega
  /\ input = <<"[", "1", " ", "2", ":", "#", "n", "i", "l", "]">>

\* the identifier test of the claim, on the bytes of a Bytes value
IdentifierBytes(b) ==
  /\ b # <<>>
  /\ b[1] \in ID_INITIAL
  /\ \A i \in 2 .. Len(b) : b[i] \in ID_SUBSEQUENT

ByteArrayForm(b) ==
  <<"[", "b", "y", "t", "e", "-", "a", "r", "r", "a", "y", " ">> \o b2a_base64(b) \o <<"]">>

C20_QuoteShorthand ==
  (Dumped /\ arg \in QuoteValues)
  => input = <<"'">> \o simple_dumps(<<arg.v[Integer(1)]>>)

\* The delimiter families, each as <<opening mark, closing mark>>: straight,
\* the two guillemets and the two corner brackets.
DelimiterFamilies ==
  { <<"\"", "\"">>, <<"U+00AB", "U+00BB">>, <<"U+2039", "U+203A">>,
    <<"U+300C", "U+300D">>, <<"U+300E", "U+300F">> }

\* the closing marks of the families other than fam, and plain letters
ForeignContent(fam) ==
  ({"a"} \cup {g[2] : g \in DelimiterFamilies \ {fam}}) \ {fam[1], fam[2]}

\* C21: a text that is the opening mark of a family, then letters and closing
\* marks of other families, then the family's closing mark, is one string
\* literal whose content is everything between the two marks.
C21_DelimiterFamilies ==
  \A fam \in DelimiterFamilies :
    ( /\ TokenizerFinished
      /\ Len(input) >= 2
      /\ input[1] = fam[1] /\ input[Len(input)] = fam[2]
      /\ \A i \in 2 .. Len(input) - 1 : input[i] \in ForeignContent(fam) )
    => /\ tstatus = "StopIteration"
       /\ tokens = <<Literal(Unicode(SubSeq(input, 2, Len(input) - 1)))>>

\* a text without the whitespace and the line comments it begins with; the
\* empty text if it ends inside a comment
RECURSIVE AfterFiller(_)
AfterFiller(s) ==
  IF s = <<>> THEN <<>>
  ELSE IF Head(s) \in Whitespace THEN AfterFiller(Tail(s))
  ELSE IF Head(s) # COMMENT_INDICATOR THEN s
  ELSE IF \E i \in 1 .. Len(s) : s[i] \in LineBreaks
  THEN AfterFiller(SubSeq(s, 1 + (CHOOSE i \in 1 .. Len(s) :
                                    /\ s[i] \in LineBreaks
                                    /\ \A j \in 1 .. i - 1 : s[j] \notin LineBreaks),
                          Len(s)))
  ELSE <<>>

\* the identifier a text begins with
RECURSIVE IdentifierPrefix(_)
IdentifierPrefix(s) ==
  IF s = <<>> \/ Head(s) \notin ID_SUBSEQUENT THEN <<>>
  ELSE <<Head(s)>> \o IdentifierPrefix(Tail(s))

ConstantNames ==
  (<<"n", "i", "l">> :> Omega) @@ (<<"t">> :> Boolean(TRUE)) @@ (<<"f">> :> Boolean(FALSE))

\* C22: for a text that begins with `#`, when _tokenize has ended: if
\* whitespace and line comments and then the name nil, t or f follow the `#`,
\* the first token is the literal Omega, true or false; with any other name,
\* with a character that begins neither a name nor a comment, and with the
\* end of the input before the name, TokenError is raised and no token made.
C22_Constants ==
  (TokenizerFinished /\ input # <<>> /\ input[1] = CONSTANT_INDICATOR)
  => LET rest == AfterFiller(Tail(input))
         name == IF rest # <<>> /\ Head(rest) \in ID_INITIAL
                 THEN IdentifierPrefix(rest) ELSE <<>>
     IN IF name \in DOMAIN ConstantNames
        THEN tokens # <<>> /\ tokens[1] = Literal(ConstantNames[name])
        ELSE tstatus = "TokenError" /\ tokens = <<>>

\* `# ;` newline `t` has been read as true
C22_Witness ==
  /\ TokenizerFinished
  /\ input = <<"#", " ", ";", "\n", "t">>
  /\ tokens = <<Literal(Boolean(TRUE))>>

Signs == {"+", "-"}

\* C23: for a text that begins with a sign, when _tokenize has ended: if
\* digits and nothing else follow the sign, the only token is the Integer
\* they write, sign included; if anything but a digit follows the sign, or
\* nothing does, the first token is an identifier that begins with the sign.
C23_SignDisambiguation ==
  (TokenizerFinished /\ input # <<>> /\ input[1] \in Signs)
  => /\ (Len(input) >= 2 /\ \A i \in 2 .. Len(input) : input[i] \in Digits)
        => tokens = <<Literal(Integer(IntegerOf(input)))>>
     /\ (Len(input) = 1 \/ (Len(input) >= 2 /\ input[2] \notin Digits))
        => /\ tokens # <<>>
           /\ tokens[1].tt = TOKEN_LITERAL
           /\ tokens[1].tv.t = "bytes"
           /\ Head(tokens[1].tv.v) = input[1]

\* <decimal>:<octets>, an atom of the canonical grammar
RECURSIVE DecimalOctets(_)
DecimalOctets(n) ==
  IF n < 10 THEN <<48 + n>> ELSE DecimalOctets(n \div 10) \o <<48 + (n % 10)>>
Atom(octets) == DecimalOctets(Len(octets)) \o <<58>> \o octets

\* the number big-endian two's-complement octets write
RECURSIVE Unsigned(_)
Unsigned(octets) ==
  IF octets = <<>> THEN 0 ELSE 256 * Unsigned(Front(octets)) + Last(octets)
RECURSIVE Power256(_)
Power256(n) == IF n = 0 THEN 1 ELSE 256 * Power256(n - 1)
TwosComplement(octets) ==
  IF octets = <<>> THEN 0
  ELSE IF Head(octets) >= 128 THEN Unsigned(octets) - Power256(Len(octets))
  ELSE Unsigned(octets)
\* no shorter octet string writes the same number
MinimalLength(octets) ==
  /\ TwosComplement(octets) = 0 => octets = <<>>
  /\ Len(octets) >= 2 => TwosComplement(Tail(octets)) # TwosComplement(octets)

\* the octets of ASCII letters
Latin(text) == [i \in 1 .. Len(text) |-> Ord(text[i])]

PrefixOctet ==
  (Symbol("quote") :> 39) @@ (Symbol("unquote") :> 44) @@ (Symbol("unquote-splice") :> 96)

\* the ways to put the elements of S in a row
Orderings(S) ==
  {s \in [1 .. Cardinality(S) -> S] : \A i, j \in 1 .. Cardinality(S) : s[i] = s[j] => i = j}

\* C25: canonical dumps of a Tuple returns the operator octet and the
\* encoding of entry 1, with no brackets, exactly when the Tuple's keys are 0
\* and 1 and entry 0 is the symbol quote, unquote or unquote-splice; for every
\* other Tuple it returns `[`, the encodings of the positional entries, each
\* named entry as `=`, key, value, and `]`.
C25_CanonicalSpecialForms ==
  \A i \in 1 .. Len(calls) :
    ( /\ calls[i].op = "dumps" /\ calls[i].arg.t = "tuple"
      /\ calls[i].arg \notin UnserializableValues )
    => LET f == calls[i].arg.v
           ret == calls[i].ret
           k == ContiguousRun(f)
           named == DOMAIN f \ {Integer(j) : j \in 0 .. k - 1}
       IN IF DOMAIN f = {Integer(0), Integer(1)} /\ f[Integer(0)] \in DOMAIN PrefixOctet
          THEN ret = <<PrefixOctet[f[Integer(0)]]>> \o canonical_dumps(<<f[Integer(1)]>>)
          ELSE \E order \in Orderings(named) :
                 ret = <<91>>
                       \o Concat([j \in 1 .. k |-> canonical_dumps(<<f[Integer(j - 1)]>>)])
                       \o Concat([j \in 1 .. Len(order) |->
                                    <<61>> \o canonical_dumps(<<order[j]>>)
                                           \o canonical_dumps(<<f[order[j]]>>)])
                       \o <<93>>

\* dumps of {0: quote, 1: a, k: #nil} has returned [5:quote1:a=1:k0:], and
\* dumps of {0: quote, 1: a} has returned '1:a
C25_Witness ==
  /\ Len(calls) = 2
  /\ calls[1].op = "dumps" /\ calls[1].arg.t = "tuple"
  /\ DOMAIN calls[1].arg.v = {Integer(0), Integer(1), Bytes(<<"k">>)}
  /\ calls[1].ret = <<91, 53, 58, 113, 117, 111, 116, 101, 49, 58, 97, 61, 49, 58, 107, 48, 58, 93>>
  /\ calls[2].op = "dumps"
  /\ calls[2].arg = Pair(Symbol("quote"), Bytes(<<"a">>))
  /\ calls[2].ret = <<39, 49, 58, 97>>

\* a Relation, a Matrix or a Procedure is somewhere in the Value
RECURSIVE HasUnserializable(_)
HasUnserializable(v) ==
  \/ v.t \in {"relation", "matrix", "procedure"}
  \/ v.t = "tuple" /\ \E k \in DOMAIN v.v : HasUnserializable(k) \/ HasUnserializable(v.v[k])
  \/ v.t = "set" /\ \E e \in v.v : HasUnserializable(e)
  \/ v.t = "seq" /\ \E i \in 1 .. Len(v.v) : HasUnserializable(v.v[i])

RecognizedVariants ==
  {"omega", "bool", "int", "frac", "unicode", "bytes", "set", "tuple", "seq",
   "relation", "matrix", "procedure"}

\* the simple dumps(arg) has ended
SimpleDumpsEnded == tstatus # "idle" \/ outcome # ""

\* C26: in both codecs dumps of a Value with a Relation, a Matrix or a
\* Procedure anywhere in it raises and returns nothing, and dumps of an object
\* that is no Value raises ValueError.
C26_Unserializable ==
  /\ (SimpleDumpsEnded /\ HasUnserializable(arg))
     => (tstatus = "idle" /\ outcome = "NotImplementedError" /\ input = <<>>)
  /\ (SimpleDumpsEnded /\ arg.t \notin RecognizedVariants)
     => (tstatus = "idle" /\ outcome = "ValueError" /\ input = <<>>)
  /\ \A i \in 1 .. Len(calls) :
       /\ HasUnserializable(calls[i].arg)
          => (calls[i].raise = "NotImplementedError" /\ calls[i].ret = <<>>)
       /\ calls[i].arg.t \notin RecognizedVariants
          => (calls[i].raise = "ValueError" /\ calls[i].ret = <<>>)

\* both codecs have raised on a Sequence that holds a Relation two levels down
C26_Witness ==
  /\ arg = Sequence(<<Tuple(Positional(<<Set({Relation})>>))>>)
  /\ outcome = "NotImplementedError"
  /\ calls # <<>> /\ calls[1].raise = "NotImplementedError"

\* loads has been called on a text
LoadsCalledOnText == arg = NoValue /\ tstatus # "idle"

\* the text handed to loads is empty or made of spaces and newlines only
BlankInput == LoadsCalledOnText /\ \A i \in 1 .. Len(input) : input[i] \in {" ", "\n"}

\* C27: loads of the empty text and of a text of spaces and newlines raises
\* nothing, in _tokenize or in _parse, and what it returns is the empty Tuple.
C27_EmptyInput ==
  BlankInput
  => /\ tstatus \in {"run", "StopIteration"}
     /\ tokens = <<>>
     /\ outcome \in {"", "returned"}
     /\ outcome = "returned" => result = Tuple(EmptyMap)

\* loads of space, newline, space has returned
C27_Witness ==
  /\ input = <<" ", "\n", " ">>
  /\ outcome = "returned"
  /\ result = Tuple(EmptyMap)

\* the name each quote prefix stands for
PrefixName ==
  ("'" :> Bytes(<<"q", "u", "o", "t", "e">>)) @@
  ("," :> Bytes(<<"u", "n", "q", "u", "o", "t", "e">>)) @@
  ("U+0060" :> Bytes(<<"u", "n", "q", "u", "o", "t", "e", "-", "s", "p", "l", "i", "c", "e">>))

\* the quote prefixes that stand right in front of token i, in input order
RECURSIVE PrefixesBefore(_)
PrefixesBefore(i) ==
  IF i > 1 /\ IsSyntax(tokens[i - 1], DOMAIN PrefixName)
  THEN Append(PrefixesBefore(i - 1), tokens[i - 1].tv)
  ELSE <<>>

\* {0: name(q1), 1: {0: name(q2), 1: ... x}}
RECURSIVE NestedQuotes(_, _)
NestedQuotes(prefixes, x) ==
  IF prefixes = <<>> THEN x
  ELSE Tuple((Integer(0) :> PrefixName[Head(prefixes)]) @@
             (Integer(1) :> NestedQuotes(Tail(prefixes), x)))

\* C28: when _parse takes an atom x with the quote prefixes q1 ... qk right
\* in front of it and no key pending, it stores {0: name(q1), 1: {0:
\* name(q2), 1: ... {0: name(qk), 1: x}}} and no quote is pending afterwards.
C28_StackedQuotes ==
  [][ ( /\ ParseStep
        /\ IsLiteral(tokens[pidx + 1])
        /\ par.key = SENTINEL )
      => /\ outcome' = ""
         /\ Inserted = NestedQuotes(PrefixesBefore(pidx + 1), tokens[pidx + 1].tv)
         /\ par'.quotes = <<>> ]_vars

\* `,'a has been read
C28_Witness ==
  /\ outcome = "returned"
  /\ Len(tokens) = 4
  /\ result = Tuple(Positional(<<
       Pair(Symbol("unquote-splice"),
            Pair(Symbol("unquote"), Pair(Symbol("quote"), Bytes(<<"a">>))))>>))

\* two containers are equal Values: the same variant with the same elements
\* or the same key -> value pairs, however each was built
EqualValues(a, b) == a.t = b.t /\ a.v = b.v

FirstFrame ==
  [input |-> input, pos |-> pos, dfa |-> dfa, tokens |-> tokens, tstatus |-> tstatus,
   par |-> par, pidx |-> pidx, outcome |-> outcome, result |-> result]
\* what a call ends with
Ending(f) == <<f.outcome, f.result>>
\* the call is where running it alone from its start would bring it
AsAlone(f) == Ending(run_alone(f)) = Ending(run_alone(Frame(f.input)))

LoadsOutcomes == {"returned", "TokenError", "SyntaxError"}

\* C31: loads takes each code point of its input at most once and ends either
\* by returning a Tuple or by raising TokenError or SyntaxError; when it raises
\* it returns nothing.
C31_LoadsOutcome ==
  /\ pos <= Len(input) + 1
  /\ Len(tokens) <= Len(input) /\ pidx <= Len(tokens)
  /\ outcome # "" => outcome \in LoadsOutcomes
  /\ outcome = "returned" => result.t = "tuple"
  /\ outcome \in {"TokenError", "SyntaxError"} => result = NoValue

\* what the pass _tokenize is about to make would do to the DFA d
PassFrom(d) ==
  tokenize_initial(d, input[pos], IF pos < Len(input) THEN input[pos + 1] ELSE None)

\* C32: a `;` read in INITIAL state begins a comment; inside a comment every
\* pass yields no token and leaves the bracket stack alone, whatever the
\* character; a line terminator ends the comment and the tokenizer goes on in
\* the state it had before it, INITIAL or CONSTANT; at the end of the input
\* inside a comment TokenError is raised.
C32_LineComments ==
  [][ /\ (TokenizeStep /\ dfa.state = INITIAL /\ input[pos] \in comment_indicator)
         => /\ dfa'.state = COMMENT /\ dfa'.initial = INITIAL
            /\ tokens' = tokens /\ dfa'.parens = dfa.parens /\ outcome' = ""
      /\ (TokenizeStep /\ dfa.state = COMMENT)
         => /\ tokens' = tokens
            /\ dfa'.parens = dfa.parens
            /\ input[pos] \notin LineBreaks => (dfa' = dfa /\ outcome' = "")
            /\ (input[pos] \in LineBreaks /\ dfa.initial = INITIAL)
               => (dfa'.state = INITIAL /\ outcome' = "")
            /\ (input[pos] \in LineBreaks /\ dfa.initial = CONSTANT_STATE)
               => LET resumed == PassFrom([dfa EXCEPT !.state = CONSTANT_STATE, !.initial = ""])
                  IN dfa' = resumed.d /\ outcome' = resumed.raise
      /\ (TokenizeEnd /\ dfa.state = COMMENT)
         => (tstatus' = "TokenError" /\ outcome' = "TokenError") ]_vars

\* loads of `;[`, a newline and `a` has returned {0: a}: the bracket inside
\* the comment was neither yielded nor put on the stack
C32_Witness ==
  /\ input = <<";", "[", "\n", "a">>
  /\ outcome = "returned"
  /\ tokens = <<[tt |-> TOKEN_LITERAL, tv |-> Bytes(<<"a">>)]>>
  /\ result = Tuple(Positional(<<Bytes(<<"a">>)>>))

\* _parse takes a token that completes a value, and stores it under a key
StoringStep ==
  /\ ParseStep
  /\ outcome' = ""
  /\ par'.key = SENTINEL
  /\ IsLiteral(tokens[pidx + 1]) \/ IsSyntax(tokens[pidx + 1], parse_closers)

\* the container the value goes into, and its counter, before the step
Receiving ==
  IF IsLiteral(tokens[pidx + 1]) THEN [tuple_ |-> par.tuple_, count |-> par.count]
  ELSE [tuple_ |-> Last(par.tuples), count |-> Last(par.counts)]

\* the key the claim has the value stored under
StoredKey ==
  IF par.key = SENTINEL THEN Integer(Receiving.count)
  ELSE IF par.key.t = "unicode" THEN Unicode(<<BOM>> \o par.key.v)
  ELSE par.key

\* C33: the parser stores a value under the pending key with one U+FEFF in
\* front of it when that key is a Unicode string, under the pending key as it
\* is when it is anything else, and under the container's counter when no key
\* is pending; a literal that is stored or becomes the pending key is kept as
\* the tokenizer gave it.
C33_UnicodeKeyPrefix ==
  [][ /\ StoringStep
         => /\ DOMAIN par'.tuple_ = DOMAIN Receiving.tuple_ \cup {StoredKey}
            /\ \A k \in DOMAIN Receiving.tuple_ \ {StoredKey} :
                 par'.tuple_[k] = Receiving.tuple_[k]
            /\ (IsLiteral(tokens[pidx + 1]) /\ par.quotes = <<>>)
               => par'.tuple_[StoredKey] = tokens[pidx + 1].tv
      /\ ( /\ ParseStep /\ outcome' = "" /\ par.key = SENTINEL /\ par'.key # SENTINEL
           /\ IsLiteral(tokens[pidx + 1]) /\ par.quotes = <<>> )
         => par'.key = tokens[pidx + 1].tv ]_vars

\* loads of `"a":"a"` has returned the Tuple whose one key is U+FEFF a and
\* whose value is the string a
C33_Witness ==
  /\ input = <<"\"", "a", "\"", ":", "\"", "a", "\"">>
  /\ outcome = "returned"
  /\ result = Tuple(Unicode(<<BOM, "a">>) :> Unicode(<<"a">>))

\* the opening brackets among the tokens _parse has taken that are not yet
\* closed, innermost last
OpenBrackets == Unclosed(SubSeq(tokens, 1, pidx))

\* C34: as long as _parse has not raised, its stacks counts, tuples and parens
\* have one entry for each opening bracket taken and not yet closed, parens
\* holding the closing token each of them waits for, and the tokenizer's
\* bracket stack has one entry for each unclosed bracket it has yielded; when
\* loads returns, the three stacks are empty and the Tuple returned is the
\* top-level container.
C34_StackDiscipline ==
  /\ outcome \in {"", "returned"}
     => /\ Len(par.counts) = Len(OpenBrackets)
        /\ Len(par.tuples) = Len(OpenBrackets)
        /\ Len(par.parens) = Len(OpenBrackets)
        /\ \A i \in 1 .. Len(OpenBrackets) : par.parens[i] = parse_parenmap[OpenBrackets[i]]
        /\ Len(dfa.parens) = Len(Unclosed(tokens))
  /\ outcome = "returned"
     => /\ par.counts = <<>> /\ par.tuples = <<>> /\ par.parens = <<>>
        /\ result = Tuple(par.tuple_)

\* _parse has taken `[` and `(` and no more: each stack holds two entries
C34_Witness ==
  /\ outcome = ""
  /\ pidx = 2
  /\ par.parens = <<TUPLE_CLOSE, SEQUENCE_CLOSE>>
  /\ Len(par.counts) = 2 /\ Len(par.tuples) = 2
  /\ Len(dfa.parens) >= 2

\* C35: when dumps has emitted a Bytes value as it is, the tokenizer reads the
\* text back as one literal token holding that Bytes value.
C35_IdentifierReadBack ==
  (Dumped /\ arg.t = "bytes" /\ input = arg.v /\ TokenizerFinished)
  => /\ tstatus = "StopIteration"
     /\ tokens = <<[tt |-> TOKEN_LITERAL, tv |-> arg]>>

\* C36: a pass of _tokenize that reads a code point other than whitespace in
\* INITIAL state yields a token, or begins a symbol, a number, a string, a
\* comment or a constant, or raises TokenError.
C36_NothingDiscarded ==
  [][ (TokenizeStep /\ dfa.state = INITIAL /\ input[pos] \notin Whitespace)
      => \/ tokens' # tokens
         \/ dfa'.state \in {SYMBOL, NUMBER, UNICODE, COMMENT, CONSTANT_STATE}
         \/ outcome' = "TokenError" ]_vars

\* C37: a pending key is not dropped: loads does not return while a key is
\* pending, and a closing token taken while a key is pending raises
\* SyntaxError.
C37_PendingKeyKept ==
  /\ [](outcome = "returned" => par.key = SENTINEL)
  /\ [][ (ParseStep /\ IsSyntax(tokens[pidx + 1], parse_closers) /\ par.key # SENTINEL)
         => outcome' = "SyntaxError" ]_vars

\* the depth of nesting after the first i tokens
Depth(i) == Len(Unclosed(SubSeq(tokens, 1, i)))

\* the position of the opening token of the innermost container _parse is in
OpenIndex ==
  CHOOSE j \in 1 .. pidx :
    /\ IsSyntax(tokens[j], parenopen) /\ Depth(j) = Depth(pidx)
    /\ \A i \in j .. pidx : Depth(i) >= Depth(pidx)

\* an association operator stands directly inside that container
AssociationInside ==
  \E j \in OpenIndex + 1 .. pidx :
    IsSyntax(tokens[j], {ASSOCIATION_OPERATOR}) /\ Depth(j) = Depth(pidx)

\* C38: when _parse takes the `)` of a sequence expression that has an
\* association operator directly inside it, it raises SyntaxError; when it
\* takes the `)` of one that has none and holds literals only, it makes the
\* Sequence of those literals in input order.
C38_NoKeysInSequence ==
  [][ ClosingStep(SEQUENCE_CLOSE)
      => IF AssociationInside THEN outcome' = "SyntaxError"
         ELSE /\ outcome' = ""
              /\ (\A i \in OpenIndex + 1 .. pidx : IsLiteral(tokens[i]))
                 => Inserted = wrap_quotes(par.quotes,
                      Sequence([i \in 1 .. pidx - OpenIndex |-> tokens[OpenIndex + i].tv])) ]_vars

\* the octets in front of the atom's length field, its length, and the
\* position of its first octet
FramePre == IF ctok.input[1] = Ord("[") THEN <<Ord("[")>> ELSE <<>>
FrameLength == ctok.input[Len(FramePre) + 1] - Ord("0")
FrameStart == Len(FramePre) + 3

\* C39: once the canonical tokenizer has read the length n and the `:`, the
\* next n octets yield nothing while they are read and make exactly one atom
\* token when the last is read, whatever they are; the bracket stack stays as
\* it was before the atom.
C39_AtomFraming ==
  LET before == [i \in 1 .. Len(FramePre) |-> <<FramePre[i]>>]
  IN /\ ctok.pos \in FrameStart .. FrameStart + FrameLength - 1
        => /\ ctok.status \in {"run", "StopIteration"}
           /\ ctok.tokens = before
           /\ ctok.dfa.parens = before
           /\ ctok.dfa.state = canonical_SYMBOL
     /\ ctok.pos = FrameStart + FrameLength
        => /\ ctok.status \in {"run", "StopIteration"}
           /\ ctok.tokens = Append(before,
                              SubSeq(ctok.input, FrameStart, FrameStart + FrameLength - 1))
           /\ ctok.dfa.parens = before
           /\ ctok.dfa.state = canonical_INITIAL

\* after `[3:]=:` the tokens are `[` and the atom `]=:`, and the bracket is
\* still open
C39_Witness ==
  /\ ctok.input = <<Ord("["), Ord("3"), Ord(":"), Ord("]"), Ord("="), Ord(":")>>
  /\ ctok.pos = 7
  /\ ctok.tokens = << <<Ord("[")>>, <<Ord("]"), Ord("="), Ord(":")>> >>
  /\ ctok.dfa.parens = << <<Ord("[")>> >>

\* the positions of the input at which the canonical tokenizer yielded a
\* syntax token: those read in INITIAL state
RECURSIVE SyntaxYields(_, _, _)
SyntaxYields(d, i, upto) ==
  IF i > upto THEN <<>>
  ELSE LET la == canonical_lookahead(ctok.input, i)
           r == canonical_tokenize_initial(d, la[1], la[2])
       IN (IF r.raise # "" THEN <<>>
           ELSE [k \in 1 .. Len(r.yield) |-> d.state = canonical_INITIAL])
          \o (IF r.raise # "" THEN <<>> ELSE SyntaxYields(r.d, i + 1, upto))

\* for each token yielded so far, whether it is a syntax token
IsSyntaxToken == SyntaxYields(CanonicalTokenizerInit, 1, ctok.pos - 1)

\* C40: a token the canonical tokenizer yields for an atom is never the same
\* value as a token it yields for a syntax marker.
C40_TokensUnambiguous ==
  \A i, j \in 1 .. Len(ctok.tokens) :
    (Len(IsSyntaxToken) = Len(ctok.tokens) /\ IsSyntaxToken[i] /\ ~IsSyntaxToken[j])
    => ctok.tokens[i] # ctok.tokens[j]

====
